---- MODULE Spec2Model ----
(***************************************************************************)
(* Verification model of the ai-event-finder backend.                      *)
(*                                                                         *)
(*   Spec      UserServiceImpl.update / delete_by_id run by concurrent     *)
(*             requests (one SQLAlchemy session each) against one          *)
(*             versioned user row, under @retry_conflicts + @transactional *)
(*   SpecTxn   retry_conflicts(n)(transactional(fn)) on one session, for   *)
(*             wrapped functions that write, call nested @transactional    *)
(*             functions, return or raise                                  *)
(*   SpecEvent EventServiceImpl.update run by concurrent requests against  *)
(*             one versioned event row with an embedding                   *)
(*   SpecHist  MemoryChatHistoryRepository: get / set / append on a store  *)
(*             constructed with any capacity the configuration can give    *)
(*   SpecThreads  the same repository called from several threads, each    *)
(*             method a sequence of steps inside `with self._lock`         *)
(*   SpecChat  ModelServiceImpl.query_prompt run by concurrent requests:   *)
(*             embedding, count extraction, similarity search, context     *)
(*             and messages, completion, history appends                   *)
(*   SpecCreate  EventServiceImpl.create run by concurrent requests        *)
(*             against the events table with its unique title column       *)
(***************************************************************************)
EXTENDS Integers, Sequences, FiniteSets, TLC

(***************************************************************************)
(* Bounds of the model.                                                    *)
(***************************************************************************)
MaxCalls == 4
MaxDepth == 3
MaxStmts == 3
MaxEventCalls == 3
MaxCapacity == 2
MaxHistOps == 3
MaxSetLen == 3
MaxThreadOps == 3
MaxChatCalls == 2
ChatCapacity == 3
MaxCreateCalls == 3

\* Two clients race on the row; each sends its requests one after another.
Procs == {1, 2}

(***************************************************************************)
(* Program constants.                                                      *)
(***************************************************************************)
\* @retry_conflicts(max_retries=3, backoff_sec=0.1) on the service methods;
\* backoff is counted in tenths of a second.
SERVICE_MAX_RETRIES == 3
SERVICE_BACKOFF == 1

None == "None"

VARIABLES
    \* ---- the user table (one row, looked up by its id / e-mail) ----
    row,          \* the committed row: exists, name, surname, password_hash, version
    lock,         \* 0, or the process whose uncommitted DELETE holds the row lock
    \* ---- one request per process, each on its own scoped session ----
    pc,           \* position of the request
    op,           \* "update" | "delete"
    data,         \* the update's data dict
    attempt,      \* retry_conflicts' loop variable
    txn,          \* session.get_transaction() is not None
    snap,         \* the entity as loaded into the session (with pending changes)
    loaded,       \* the entity's column values as read from the database
    result,       \* how the call ended: "ok", an exception name, or "pending"
    nops,         \* requests this process has started
    slept,        \* the waits of the current call, in order
    \* ---- history variables of the current call of each process ----
    firstRead,    \* version read by attempt 1 (0: none)
    firstWrote,   \* attempt 1 issued an UPDATE
    commitAttempt,\* attempt whose transaction committed (0: none)
    commitVersion,\* row version produced by that commit (0: no UPDATE)
    conflicts,    \* attempts that ended in ConcurrencyException
    stale,        \* StaleDataErrors the storage raised during the call
    lastWrite     \* per column: row version whose UPDATE last set it

VARIABLES
    \* ---- SpecTxn: one session running retry_conflicts(n)(transactional(fn)) ----
    tMax,         \* max_retries of the decorator
    tPc,          \* "idle" | "loop" | "body" | "except" | "caught" | "sleep" | "done"
    tAttempt,     \* retry_conflicts' loop variable
    tStack,       \* the active transactional.wrapped invocations, outermost first
    tTxn,         \* session.get_transaction() is not None
    tPending,     \* writes of the session's open transaction
    tDb,          \* committed writes, as every other session sees them
    tErr,         \* the exception in flight (None: none)
    tResult,      \* how the call ended
    tSlept,       \* the waits of the call, in order
    tStmts,       \* statements the current attempt has executed
    \* ---- history variables ----
    tRuns,        \* times the wrapped function was invoked by the retry loop
    tConflicts,   \* attempts that ended in ConcurrencyException
    tLastOutcome, \* "ok" or the error with which the last attempt ended
    tDbStart,     \* tDb when the current attempt started
    tWrites,      \* writes the current attempt has made
    tReturned,    \* the outermost wrapped function returned normally
    tPhase,       \* phase of the current outermost invocation
    tLog          \* begin / commit / rollback / except events of the attempt

tvars == <<tMax, tPc, tAttempt, tStack, tTxn, tPending, tDb, tErr, tResult,
           tSlept, tStmts, tRuns, tConflicts, tLastOutcome, tDbStart, tWrites,
           tReturned, tPhase, tLog>>

VARIABLES
    \* ---- SpecEvent: the events table (one row) and its update requests ----
    eRow,         \* the committed row: description, location, category, embedding, version
    ePc,          \* position of the request
    ePatch,       \* the patch dict of the request
    eTemp,        \* temp_event: the columns read first, with the patch applied
    eEmb,         \* temp_event.embedding, as the embedding service returned it
    eLoaded,      \* event_to_update as re-fetched by _write_update
    eResult,      \* how the call ended
    eRuns,        \* times the request ran its write transaction
    eCalls        \* requests started

evars == <<eRow, ePc, ePatch, eTemp, eEmb, eLoaded, eResult, eRuns, eCalls>>

VARIABLES
    \* ---- SpecHist: MemoryChatHistoryRepository ----
    hMax,         \* self._max
    hStore,       \* self._store, a missing key read as []
    hRet,         \* the list the last get returned
    hOps,         \* operations performed
    \* ---- history variables ----
    hAll,         \* per key: every message appended since the key was fresh
    hWasSet,      \* per key: set was called on it
    hLast         \* the last operation: kind, key, argument

hvars == <<hMax, hStore, hRet, hOps, hAll, hWasSet, hLast>>

VARIABLES
    \* ---- SpecThreads: MemoryChatHistoryRepository under threads ----
    lMax,         \* self._max
    lStore,       \* self._store
    lLock,        \* self._lock: the holding thread, 0 when free
    lPc,          \* per thread: position in the method it runs
    lOp,          \* per thread: the call it runs (kind, key, arg)
    lSlice,       \* per thread: the value of hist[-self._max:]
    lGot,         \* per thread: what its last get returned
    lOps,         \* calls started
    \* ---- history variables ----
    lLog,         \* per key: the messages set or appended, in store order
    lGotLog,      \* per thread: lLog of the key at its last get
    lContended    \* some call started while another thread held the lock

lvars == <<lMax, lStore, lLock, lPc, lOp, lSlice, lGot, lOps, lLog, lGotLog, lContended>>

VARIABLES
    \* ---- SpecChat: ModelServiceImpl.query_prompt ----
    qRepo,        \* self.history_repo is not None
    qSys,         \* self.sys_prompt
    qTable,       \* the events table the similarity search reads
    qMax,         \* capacity of the history store
    qStore,       \* the history store: session key -> messages
    qPc,          \* per request: the step of query_prompt it is at
    qPrompt,      \* per request: user_prompt
    qKey,         \* per request: session_key
    qK,           \* per request: <<k>>, <<>> before count extraction returns
    qEvents,      \* per request: what search_by_embedding returned
    qMsgs,        \* per request: the messages of the answer completion
    qAnswer,      \* per request: answer
    qResult,      \* per request: how its last call ended
    qCalls,       \* calls of query_prompt started
    \* ---- history variables ----
    qId,          \* per request: <<r, n>> during its n-th call
    qSteps,       \* per request: the steps its current call has taken
    qSnapshot,    \* per request: the history store when its call started
    qOthers,      \* per request: another request appended since its call began
    qResp,        \* per request: the count-extraction response of its call
    qLog,         \* per key: every append, as <<call, role, content>>
    qOk           \* the calls that returned an answer

qvars == <<qRepo, qSys, qTable, qMax, qStore, qPc, qPrompt, qKey, qK, qEvents,
           qMsgs, qAnswer, qResult, qCalls, qId, qSteps, qSnapshot, qOthers,
           qResp, qLog, qOk>>

VARIABLES
    \* ---- SpecCreate: EventServiceImpl.create ----
    kRows,        \* the committed rows of the events table
    kPc,          \* per request: the step of create it is at
    kData,        \* per request: the data of its call
    kEvent,       \* per request: the Event it built (embedding included)
    kResult,      \* per request: how its last call ended
    kCalls,       \* calls of create started
    \* ---- history variables ----
    kId,          \* per request: <<p, n>> during its n-th call
    kFound,       \* per request: the rows its pre-check found
    kEmbedCalls,  \* per request: embedding-provider calls of its call
    kRechecked    \* per request: its call passed the in-transaction re-check

kvars == <<kRows, kPc, kData, kEvent, kResult, kCalls, kId, kFound,
           kEmbedCalls, kRechecked>>

uvars == <<row, lock, pc, op, data, attempt, txn, snap, loaded, result,
           nops, slept, firstRead, firstWrote, commitAttempt, commitVersion,
           conflicts, stale, lastWrite>>

VARIABLES
    gList,
    gPc,
    gOp,
    gTitle,
    gEmail,
    gAttempt,
    gResult,
    gCalls,
    gDuplicate,
    gWrote

gvars == <<gList, gPc, gOp, gTitle, gEmail, gAttempt, gResult, gCalls, gDuplicate, gWrote>>

VARIABLES
    bText,
    bPc,
    bPayload,
    bRaised,
    bReturned,
    bNorm,
    bStatus,
    bProviderCalls,
    bCalls

bvars == <<bText, bPc, bPayload, bRaised, bReturned, bNorm, bStatus, bProviderCalls, bCalls>>

VARIABLES
    nUsers,
    nPc,
    nRequest,
    nFound,
    nResponse,
    nLookups,
    nCalls

nvars == <<nUsers, nPc, nRequest, nFound, nResponse, nLookups, nCalls>>

VARIABLES
    cLimit,
    cStored,
    cRepo,
    cKey,
    cPc,
    cRecent,
    cContext,
    cReads,
    cCalls

cvars == <<cLimit, cStored, cRepo, cKey, cPc, cRecent, cContext, cReads, cCalls>>

vars == <<uvars, tvars, evars, hvars, lvars, qvars, kvars, gvars, bvars, nvars, cvars>>

\* What the actions of one specification leave alone.
NotUser == <<tvars, evars, hvars, lvars, qvars, kvars, gvars, bvars, nvars, cvars>>
NotTxn == <<uvars, evars, hvars, lvars, qvars, kvars, gvars, bvars, nvars, cvars>>
NotEvent == <<uvars, tvars, hvars, lvars, qvars, kvars, gvars, bvars, nvars, cvars>>
NotHist == <<uvars, tvars, evars, lvars, qvars, kvars, gvars, bvars, nvars, cvars>>
NotThreads == <<uvars, tvars, evars, hvars, qvars, kvars, gvars, bvars, nvars, cvars>>
NotChat == <<uvars, tvars, evars, hvars, lvars, kvars, gvars, bvars, nvars, cvars>>
NotCreate == <<uvars, tvars, evars, hvars, lvars, qvars, gvars, bvars, nvars, cvars>>
NotGuests == <<uvars, tvars, evars, hvars, lvars, qvars, kvars, bvars, nvars, cvars>>
NotEmbed == <<uvars, tvars, evars, hvars, lvars, qvars, kvars, gvars, nvars, cvars>>
NotLogin == <<uvars, tvars, evars, hvars, lvars, qvars, kvars, gvars, bvars, cvars>>
NotContext == <<uvars, tvars, evars, hvars, lvars, qvars, kvars, gvars, bvars, nvars>>

Columns == {"name", "surname", "password_hash"}

\* The data dicts the requests carry (update_user_schema, partial=True).
UserPatches ==
    { [name |-> "a",  surname |-> None, password |-> None],
      [name |-> None, surname |-> "b",  password |-> None],
      [name |-> "b",  surname |-> None, password |-> ""],
      [name |-> None, surname |-> None, password |-> "pw"] }

NoPatch == [name |-> None, surname |-> None, password |-> None]

InitialRow ==
    [exists |-> TRUE, name |-> "x", surname |-> "y",
     password_hash |-> <<"pw0", <<0, 0, 0>>>>, version |-> 1]

(***************************************************************************)
(* Pure helpers.                                                           *)
(***************************************************************************)

\* UserServiceImpl.update, the three guarded assignments.  The password
\* setter stores a freshly salted hash.
ApplyUserPatch(user, d, salt) ==
    [user EXCEPT
        !.name = IF d.name # None THEN d.name ELSE @,
        !.surname = IF d.surname # None THEN d.surname ELSE @,
        !.password_hash = IF d.password # None /\ d.password # ""
                          THEN <<d.password, salt>> ELSE @]

\* Columns with a net change: the flush emits an UPDATE only for these.
DirtyColumnsMutant(old, new) == Columns

DirtyColumns(old, new) == {c \in Columns : old[c] # new[c]}

\* The versioned UPDATE / DELETE statement matches the row:
\* ... WHERE id = :id AND version = :loaded_version
VersionMatchesMutant(r, loadedVersion) == r.exists

VersionMatches(r, loadedVersion) == r.exists /\ r.version = loadedVersion

\* transactional.wrapped, the two except clauses: the error that leaves the
\* wrapper.
TransactionalRaisesMutant(err, outermost) ==
    IF err = "StaleDataError" THEN "ConcurrencyException" ELSE err

TransactionalRaises(err, outermost) ==
    IF err = "StaleDataError" /\ outermost THEN "ConcurrencyException" ELSE err

\* retry_conflicts.wrapped, the except clause: what the loop does with the
\* error of attempt number a out of n.
RetryDecisionMutant(err, a, n) ==
    IF err = "ConcurrencyException" THEN "raise" ELSE "raise"

RetryDecision(err, a, n) ==
    IF err = "ConcurrencyException"
    THEN IF a = n THEN "raise" ELSE "sleep"
    ELSE "raise"

\* sleep(backoff_sec * attempt)
BackoffWaitMutant(backoff, a) == backoff

BackoffWait(backoff, a) == backoff * a

\* UserServiceImpl.delete_by_id: except Exception as e: raise UserDeleteException
WrapDeleteError(err) == "UserDeleteException"

\* generate_password_hash draws a fresh salt on every call: the salt of
\* the hash computed by attempt a of the k-th request of process p.
Salt(p) == <<p, nops[p], attempt[p]>>

RECURSIVE SumOver(_, _)
SumOver(f, S) ==
    IF S = {} THEN 0
    ELSE LET x == CHOOSE y \in S : TRUE IN f[x] + SumOver(f, S \ {x})

TotalCalls == SumOver(nops, Procs)

(***************************************************************************)
(* Initial state.                                                          *)
(***************************************************************************)
InitUser ==
    /\ row = InitialRow
    /\ lock = 0
    /\ pc = [p \in Procs |-> "idle"]
    /\ op = [p \in Procs |-> "update"]
    /\ data = [p \in Procs |-> NoPatch]
    /\ attempt = [p \in Procs |-> 0]
    /\ txn = [p \in Procs |-> FALSE]
    /\ snap = [p \in Procs |-> InitialRow]
    /\ loaded = [p \in Procs |-> InitialRow]
    /\ result = [p \in Procs |-> "pending"]
    /\ nops = [p \in Procs |-> 0]
    /\ slept = [p \in Procs |-> <<>>]
    /\ firstRead = [p \in Procs |-> 0]
    /\ firstWrote = [p \in Procs |-> FALSE]
    /\ commitAttempt = [p \in Procs |-> 0]
    /\ commitVersion = [p \in Procs |-> 0]
    /\ conflicts = [p \in Procs |-> 0]
    /\ stale = [p \in Procs |-> 0]
    /\ lastWrite = [c \in Columns |-> 1]

\* max_retries values the decorator is configured with.
RetryChoices == (-1)..SERVICE_MAX_RETRIES

Errors == {"StaleDataError", "OtherError"}

InitTxn ==
    /\ tMax \in RetryChoices
    /\ tPc = "idle"
    /\ tAttempt = 0
    /\ tStack = <<>>
    /\ tTxn = FALSE
    /\ tPending = {}
    /\ tDb = {}
    /\ tErr = None
    /\ tResult = "pending"
    /\ tSlept = <<>>
    /\ tStmts = 0
    /\ tRuns = 0
    /\ tConflicts = 0
    /\ tLastOutcome = None
    /\ tDbStart = {}
    /\ tWrites = {}
    /\ tReturned = FALSE
    /\ tPhase = "NOT_STARTED"
    /\ tLog = <<>>

\* The part of the state a specification does not use stays as it starts.
IdleTxn ==
    /\ tMax = SERVICE_MAX_RETRIES
    /\ tPc = "idle"
    /\ tAttempt = 0
    /\ tStack = <<>>
    /\ tTxn = FALSE
    /\ tPending = {}
    /\ tDb = {}
    /\ tErr = None
    /\ tResult = "pending"
    /\ tSlept = <<>>
    /\ tStmts = 0
    /\ tRuns = 0
    /\ tConflicts = 0
    /\ tLastOutcome = None
    /\ tDbStart = {}
    /\ tWrites = {}
    /\ tReturned = FALSE
    /\ tPhase = "NOT_STARTED"
    /\ tLog = <<>>


(***************************************************************************)
(* SpecEvent: data.                                                        *)
(***************************************************************************)
EVENT_TITLE == "Launch Party"
EVENT_DATETIME == "2025-08-26T14:00:00"

PatchColumns == {"description", "location", "category"}

\* The patch dicts the requests carry (update_event_schema, partial=True):
\* only the keys the request body has.
EventPatches ==
    { [c \in {"description"} |-> "d1"],
      [c \in {"location"} |-> "l1"],
      [c \in {"description", "location"} |-> IF c = "description" THEN "d2" ELSE "l1"],
      [c \in {"category"} |-> None] }

OrEmpty(x) == IF x = None THEN "" ELSE x

\* format_event: the six fields joined by " | ", None rendered as "".  The
\* event formatted by create / update is a transient Event whose organizer
\* relationship is not loaded, so the last field is "".
FormatEvent(e) ==
    <<EVENT_TITLE, " | ", OrEmpty(e.description), " | ", OrEmpty(e.location),
      " | ", OrEmpty(e.category), " | ", EVENT_DATETIME, " | ", "">>

\* The embedding service is a function of the text it is given.
Embedding(text) == <<"embedding-of", text>>

InitialEventColumns ==
    [description |-> "d0", location |-> "l0", category |-> "c0"]

InitialEvent ==
    [description |-> "d0", location |-> "l0", category |-> "c0",
     embedding |-> Embedding(FormatEvent(InitialEventColumns)), version |-> 1]

\* temp_data.update(patch) / setattr(event_to_update, key, value)
ApplyEventPatch(e, patch) ==
    [c \in DOMAIN e |-> IF c \in DOMAIN patch THEN patch[c] ELSE e[c]]

InitEvent ==
    /\ eRow = InitialEvent
    /\ ePc = [p \in Procs |-> "idle"]
    /\ ePatch = [p \in Procs |-> << >>]
    /\ eTemp = [p \in Procs |-> InitialEvent]
    /\ eEmb = [p \in Procs |-> None]
    /\ eLoaded = [p \in Procs |-> InitialEvent]
    /\ eResult = [p \in Procs |-> "pending"]
    /\ eRuns = [p \in Procs |-> 0]
    /\ eCalls = 0

IdleEvent == InitEvent


(***************************************************************************)
(* SpecHist: data.                                                         *)
(***************************************************************************)
DEFAULT_MAX_MESSAGES == 50

Keys == {"s1", "s2"}

Messages ==
    { [role |-> "user", content |-> "q"],
      [role |-> "assistant", content |-> "a"] }

\* Capacities int(os.getenv("CHAT_HISTORY_MAX", "50")) is modelled with.
CapacityChoices == 0..MaxCapacity

RECURSIVE SeqsUpTo(_, _)
SeqsUpTo(S, n) ==
    IF n = 0 THEN {<<>>}
    ELSE LET shorter == SeqsUpTo(S, n - 1) IN
         shorter \cup {Append(q, x) : q \in shorter, x \in S}

MinOf(a, b) == IF a <= b THEN a ELSE b
MaxOf(a, b) == IF a >= b THEN a ELSE b

\* Python's seq[-n:] for an integer n: the last n elements when n > 0 (all
\* of them when there are fewer), the whole list when n = 0 (-0 is 0), and
\* the list without its first -n elements when n < 0.
PyTail(seq, n) ==
    LET start == IF n > 0 THEN MaxOf(Len(seq) - n, 0)
                 ELSE MinOf(0 - n, Len(seq))
    IN  SubSeq(seq, start + 1, Len(seq))

\* The last n elements of seq (all of them when there are fewer).
LastN(seq, n) ==
    SubSeq(seq, Len(seq) - MinOf(MaxOf(n, 0), Len(seq)) + 1, Len(seq))

InitHistWith(capacities) ==
    /\ hMax \in capacities
    /\ hStore = [k \in Keys |-> <<>>]
    /\ hRet = <<>>
    /\ hOps = 0
    /\ hAll = [k \in Keys |-> <<>>]
    /\ hWasSet = [k \in Keys |-> FALSE]
    /\ hLast = [kind |-> "none", key |-> "s1", arg |-> <<>>]

InitHist == InitHistWith(CapacityChoices)

IdleHist == InitHistWith({DEFAULT_MAX_MESSAGES})


(***************************************************************************)
(* SpecThreads: data.                                                      *)
(***************************************************************************)
Threads == {1, 2}

NoThread == 0

\* The message the n-th call of the run appends: contents are distinct, so
\* that a message can be followed through the store.
ThreadMessage(n) == [role |-> "user", content |-> n]

\* Arguments of set: lists of messages no append produces.
SetArguments ==
    { <<[role |-> "system", content |-> 0]>>,
      <<[role |-> "system", content |-> 0],
        [role |-> "assistant", content |-> 0],
        [role |-> "user", content |-> 0]>> }

NoCall == [kind |-> "none", key |-> "s1", arg |-> <<>>]

InitThreadsWith(capacities) ==
    /\ lMax \in capacities
    /\ lStore = [k \in Keys |-> <<>>]
    /\ lLock = NoThread
    /\ lPc = [t \in Threads |-> "idle"]
    /\ lOp = [t \in Threads |-> NoCall]
    /\ lSlice = [t \in Threads |-> <<>>]
    /\ lGot = [t \in Threads |-> <<>>]
    /\ lOps = 0
    /\ lLog = [k \in Keys |-> <<>>]
    /\ lGotLog = [t \in Threads |-> <<>>]
    /\ lContended = FALSE

InitThreads == InitThreadsWith(CapacityChoices)

IdleThreads == InitThreadsWith({DEFAULT_MAX_MESSAGES})

(***************************************************************************)
(* SpecChat: data.  A text is a sequence of tokens; " " and "\n" are the   *)
(* whitespace tokens and <<>> is the empty string.                         *)
(***************************************************************************)
DEFAULT_K_EVENTS == 5
MAX_HISTORY_IN_CONTEXT == 5

Requests == {1, 2}

SessionKeys == {"", "s1"}

StoredKeys == {"s1"}

\* The route rejects an empty prompt; one prompt has surrounding whitespace.
\* The prompt each client sends.
PromptOf == [r \in Requests |->
               IF r = 1 THEN <<" ", "two", "events", "\n">> ELSE <<"events">>]

\* self.sys_prompt = sys_prompt or DEFAULT_SYS_PROMPT: never empty; the
\* default ends in whitespace.
DEFAULT_SYS_PROMPT == <<"You are an Event Assistant", " ", "\n">>

SystemPrompts == { DEFAULT_SYS_PROMPT }

\* The container always passes a history repository.
HistoryRepos == { TRUE }

\* CHAT_HISTORY_MAX of the runs: small enough for the store to fill up.
ChatCapacities == {ChatCapacity}

IsSpace(tok) == tok \in {" ", "\n", "\n\n"}

\* str.strip()
RECURSIVE Strip(_)
Strip(t) ==
    IF t = <<>> THEN t
    ELSE IF IsSpace(Head(t)) THEN Strip(Tail(t))
    ELSE IF IsSpace(t[Len(t)]) THEN Strip(SubSeq(t, 1, Len(t) - 1))
    ELSE t

\* sep.join(texts)
RECURSIVE Join(_, _)
Join(texts, sep) ==
    IF texts = <<>> THEN <<>>
    ELSE IF Len(texts) = 1 THEN texts[1]
    ELSE texts[1] \o <<sep>> \o Join(Tail(texts), sep)

\* [f(x) for x in xs]
MapSeq(f(_), xs) == [i \in 1..Len(xs) |-> f(xs[i])]

\* [x for x in xs if keep(x)]
RECURSIVE FilterSeq(_, _)
FilterSeq(keep(_), xs) ==
    IF xs = <<>> THEN <<>>
    ELSE IF keep(Head(xs)) THEN <<Head(xs)>> \o FilterSeq(keep, Tail(xs))
    ELSE FilterSeq(keep, Tail(xs))

Contains(t, tok) == \E i \in 1..Len(t) : t[i] = tok

\* The events table: rows with and without an embedding.  An embedding is
\* <<x>>, a point on a line, and <<>> is NULL; the query vector of every
\* prompt is the point 0.
IndexedEvent(title, emb) ==
    [title |-> title, description |-> None, embedding |-> emb]

ChatTables ==
    { {},
      {IndexedEvent("A", <<1>>), IndexedEvent("B", <<>>), IndexedEvent("C", <<2>>)} }

QueryVector(prompt) == 0

\* e.embedding <=> :q
CosineDistance(emb, q) == IF emb[1] >= q THEN emb[1] - q ELSE q - emb[1]

\* format_event of a row of the table: its organizer is loaded with it.
FormatIndexedEvent(e) ==
    <<e.title, " | ", OrEmpty(e.description), " | ", "", " | ", "", " | ",
      EVENT_DATETIME, " | ", "organizer">>

\* WHERE e.embedding IS NOT NULL
Candidates(table) == {e \in table : e.embedding # <<>>}

\* LIMIT :k -- PostgreSQL rejects a negative LIMIT ("LIMIT must not be
\* negative"); SQLAlchemy raises the database error from execute.
SearchRaises(k) == k < 0

\* ORDER BY e.embedding <=> :q LIMIT :k: every list the statement can
\* return (rows at equal distance come in any order).
SearchByEmbedding(table, q, k) ==
    LET cands == Candidates(table)
        n == MinOf(k, Cardinality(cands))
    IN  { res \in SeqsUpTo(cands, n) :
            /\ Len(res) = n
            /\ \A i, j \in 1..n : i < j =>
                 /\ res[i] # res[j]
                 /\ CosineDistance(res[i].embedding, q)
                      <= CosineDistance(res[j].embedding, q)
            /\ \A e \in cands :
                 (\A i \in 1..n : res[i] # e) =>
                   \A i \in 1..n :
                     CosineDistance(res[i].embedding, q)
                       <= CosineDistance(e.embedding, q) }

\* The count-extraction completion: no choices, a message whose content is
\* None, or a content string.
CountContents == {" 1\n", "0", "-1", "two", ""}

CountResponses ==
    {[choices |-> FALSE, content |-> None], [choices |-> TRUE, content |-> None]}
        \cup {[choices |-> TRUE, content |-> c] : c \in CountContents}

\* str.strip() on the content strings above.
StripContent(c) == IF c = " 1\n" THEN "1" ELSE c

\* The strings int() accepts, with their values; on any other string int()
\* raises ValueError.
IntLiterals == [c \in {"1", "0", "-1"} |->
                  CASE c = "1" -> 1 [] c = "0" -> 0 [] c = "-1" -> 0 - 1]

\* int(content.strip())
ParseIntMutant(c) ==
    IF StripContent(c) \in DOMAIN IntLiterals
      THEN [ok |-> TRUE, value |-> IntLiterals[StripContent(c)]]
      ELSE [ok |-> TRUE, value |-> DEFAULT_K_EVENTS]

ParseInt(c) ==
    IF StripContent(c) \in DOMAIN IntLiterals
      THEN [ok |-> TRUE, value |-> IntLiterals[StripContent(c)]]
      ELSE [ok |-> FALSE, value |-> 0]

\* extract_requested_event_count on a completion response: the k it
\* returns, or the error it raises.
ExtractRequestedEventCount(resp) ==
    LET content == IF resp.choices THEN resp.content ELSE "0" IN
    IF content = None
      THEN [ok |-> FALSE, value |-> 0, error |-> "AttributeError"]
      ELSE [ok |-> ParseInt(content).ok, value |-> ParseInt(content).value,
            error |-> IF ParseInt(content).ok THEN None ELSE "ValueError"]

\* The answer completion: no choices, content None, or a text.
AnswerResponses ==
    {[choices |-> FALSE, null |-> TRUE, content |-> <<>>],
     [choices |-> TRUE, null |-> TRUE, content |-> <<>>],
     [choices |-> TRUE, null |-> FALSE, content |-> <<"\n", "two", "events", " ">>]}

\* answer = (content if choices and message else "") or ""; answer.strip()
AnswerOf(resp) ==
    Strip(IF resp.choices /\ ~resp.null THEN resp.content ELSE <<>>)

\* f"{m['role']}: {m['content']}".strip()
HistoryLine(msg) == Strip(<<msg.role, ":", " ">> \o msg.content)

\* if m.get("role") and m.get("content")
HasRoleAndContent(msg) == msg.role # "" /\ msg.content # <<>>

\* recent = prior[-Config.MAX_HISTORY_IN_CONTEXT:] if prior else []
RecentMessages(prior, max_history) ==
    IF prior # <<>> THEN PyTail(prior, max_history) ELSE <<>>

\* query_prompt, lines 99-122: combined_context from the retrieved events
\* and the messages history_repo.get returned (<<>> without history).
ContextWith(events, prior, max_history) ==
    LET rag_docs == Join(MapSeq(FormatIndexedEvent, events), "\n")
        recent == RecentMessages(prior, max_history)
        lines == MapSeq(HistoryLine, FilterSeq(HasRoleAndContent, recent))
        history_block == IF recent # <<>> THEN Join(lines, "\n") ELSE <<>>
        docs_part == IF Strip(rag_docs) # <<>>
                       THEN << <<"DOCUMENTS:", "\n">> \o rag_docs >>
                       ELSE <<>>
        hist_part == IF history_block # <<>>
                       THEN << <<"RECENT MESSAGES (last ", ToString(Len(recent)), "):", "\n">>
                               \o history_block >>
                       ELSE <<>>
        parts == docs_part \o hist_part
    IN  IF parts # <<>> THEN Join(parts, "\n\n")
        ELSE <<"No context available.">>

\* the context under the default Config.MAX_HISTORY_IN_CONTEXT
CombinedContext(events, prior) ==
    ContextWith(events, prior, MAX_HISTORY_IN_CONTEXT)

\* build_messages
BuildMessagesMutant(sys_prompt, context, user_prompt) ==
    << [role |-> "system", content |-> context],
       [role |-> "user", content |-> Strip(user_prompt)] >>

BuildMessages(sys_prompt, context, user_prompt) ==
    LET sys_text == Strip(sys_prompt)
        ctx_text == Strip(IF context = <<>> THEN <<"no events retrieved">>
                          ELSE context)
    IN  << [role |-> "system",
            content |-> Strip(sys_text \o <<"\n\n">> \o ctx_text)],
           [role |-> "user", content |-> user_prompt] >>

\* if session_key and self.history_repo
HistoryOn(key, repo) == key # "" /\ repo

\* append of the history store, one step under its lock.
HistoryAppendMutant(hist, msg, max) == <<msg>>

HistoryAppend(hist, msg, max) ==
    LET h == Append(hist, msg) IN
    IF Len(h) > max THEN PyTail(h, max) ELSE h

\* The order of the steps of query_prompt.
StepAfterSkipMutant(step, historyOn) ==
    CASE step = "embed" -> "count"
      [] step = "count" -> "build"
      [] step = "search" -> "build"
      [] step = "build" -> "complete"
      [] step = "complete" -> IF historyOn THEN "append_user" ELSE "idle"
      [] step = "append_user" -> "append_assistant"
      [] step = "append_assistant" -> "idle"

StepAfterMutant(step, historyOn) ==
    CASE step = "embed" -> "count"
      [] step = "count" -> "search"
      [] step = "search" -> "build"
      [] step = "build" -> IF historyOn THEN "append_user" ELSE "complete"
      [] step = "append_user" -> "append_assistant"
      [] step = "append_assistant" -> "complete"
      [] step = "complete" -> "idle"

StepAfter(step, historyOn) ==
    CASE step = "embed" -> "count"
      [] step = "count" -> "search"
      [] step = "search" -> "build"
      [] step = "build" -> "complete"
      [] step = "complete" -> IF historyOn THEN "append_user" ELSE "idle"
      [] step = "append_user" -> "append_assistant"
      [] step = "append_assistant" -> "idle"

NoResult == [kind |-> "none", value |-> ""]

NoResponse == [choices |-> FALSE, content |-> "not asked"]

InitChatWith(repos, prompts, tables, capacities) ==
    /\ qRepo \in repos
    /\ qSys \in prompts
    /\ qTable \in tables
    /\ qMax \in capacities
    /\ qStore = [k \in StoredKeys |-> <<>>]
    /\ qPc = [r \in Requests |-> "idle"]
    /\ qPrompt = [r \in Requests |-> <<>>]
    /\ qKey = [r \in Requests |-> ""]
    /\ qK = [r \in Requests |-> <<>>]
    /\ qEvents = [r \in Requests |-> <<>>]
    /\ qMsgs = [r \in Requests |-> <<>>]
    /\ qAnswer = [r \in Requests |-> <<>>]
    /\ qResult = [r \in Requests |-> NoResult]
    /\ qCalls = 0
    /\ qId = [r \in Requests |-> <<r, 0>>]
    /\ qSteps = [r \in Requests |-> <<>>]
    /\ qSnapshot = [r \in Requests |-> [k \in StoredKeys |-> <<>>]]
    /\ qOthers = [r \in Requests |-> FALSE]
    /\ qResp = [r \in Requests |-> NoResponse]
    /\ qLog = [k \in StoredKeys |-> <<>>]
    /\ qOk = {}

InitChat == InitChatWith(HistoryRepos, SystemPrompts, ChatTables, ChatCapacities)

IdleChat == InitChatWith({TRUE}, {DEFAULT_SYS_PROMPT}, {{}}, {DEFAULT_MAX_MESSAGES})

(***************************************************************************)
(* SpecCreate: data.                                                       *)
(***************************************************************************)
Creators == {1, 2}

Titles == {EVENT_TITLE, "Meetup"}

\* The request bodies: a title, a description, and an organizer email that
\* belongs to a user or does not.
CreateData ==
    [title : Titles, description : {"d1", "d2"}, organizer_known : BOOLEAN]

NoData == [title |-> "", description |-> "", organizer_known |-> FALSE]

NoEvent == [title |-> "", description |-> "", embedding |-> <<>>]

\* The table when the first request arrives: empty, or holding an event
\* created before.
LaunchParty ==
    [id |-> <<0, 0>>, title |-> EVENT_TITLE, description |-> "d0", version |-> 1,
     embedding |-> Embedding(<<EVENT_TITLE, "d0">>)]

InitialTables == { {}, {LaunchParty} }

\* get_by_title: the rows with the title (first() takes one of them).
RowsByTitle(rows, title) == {e \in rows : e.title = title}

\* title = db.Column(..., unique=True): the INSERT of a title the table
\* already holds raises IntegrityError.
UniqueViolationMutant(rows, title) == FALSE

UniqueViolation(rows, title) == RowsByTitle(rows, title) # {}

\* if self.event_repository.get_by_title(data['title'], db.session)
PrecheckFindsMutant(rows, title) == FALSE

PrecheckFinds(rows, title) == RowsByTitle(rows, title) # {}

InitCreateWith(tables) ==
    /\ kRows \in tables
    /\ kPc = [p \in Creators |-> "idle"]
    /\ kData = [p \in Creators |-> NoData]
    /\ kEvent = [p \in Creators |-> NoEvent]
    /\ kResult = [p \in Creators |-> "none"]
    /\ kCalls = 0
    /\ kId = [p \in Creators |-> <<p, 0>>]
    /\ kFound = [p \in Creators |-> {}]
    /\ kEmbedCalls = [p \in Creators |-> 0]
    /\ kRechecked = [p \in Creators |-> FALSE]

InitCreate == InitCreateWith(InitialTables)

IdleCreate == InitCreateWith({{}})

(***************************************************************************)
(* AppServiceImpl: the guest list of an event.  guest_list is the          *)
(* association table with the composite primary key (event_id, user_id);   *)
(* it is modelled as the number of rows stored per (event, user) pair, so  *)
(* that a duplicate row is a state the model can express.                  *)
(***************************************************************************)
MaxGuestCalls == 3

Inviters == {1, 2}

GuestTitles == {EVENT_TITLE, "Missing"}

StoredTitles == {EVENT_TITLE}

GuestEmails == {"ana@example.com", "nobody@example.com"}

StoredEmails == {"ana@example.com"}

GuestPairs == StoredTitles \X StoredEmails

GuestOps == {"add", "remove"}

\* guest_list: composite primary key (event_id, user_id)
PrimaryKeyViolation(list, pair) == list[pair] >= 1

\* if user in event.guests / if user not in event.guests
IsGuest(list, pair) == list[pair] >= 1

InitialGuestLists == [GuestPairs -> {0, 1}]

InitGuestsWith(lists) ==
    /\ gList \in lists
    /\ gPc = [p \in Inviters |-> "idle"]
    /\ gOp = [p \in Inviters |-> "none"]
    /\ gTitle = [p \in Inviters |-> EVENT_TITLE]
    /\ gEmail = [p \in Inviters |-> "ana@example.com"]
    /\ gAttempt = [p \in Inviters |-> 0]
    /\ gResult = [p \in Inviters |-> "none"]
    /\ gCalls = 0
    /\ gDuplicate = [p \in Inviters |-> FALSE]
    /\ gWrote = [p \in Inviters |-> FALSE]

InitGuests == InitGuestsWith(InitialGuestLists)

IdleGuests == InitGuestsWith({[pair \in GuestPairs |-> 0]})

(***************************************************************************)
(* EmbeddingServiceImpl.create_embedding and the error handler of          *)
(* EmbeddingServiceException.  A text is a flag (is it a str) and a        *)
(* sequence of tokens; a provider component is a float32 value kept as its *)
(* class and decimal exponent, so that the overflow and the underflow of   *)
(* the float32 dot product in numpy.linalg.norm are part of the model.     *)
(* Rounding inside the normal range is not modelled.                       *)
(***************************************************************************)
MaxEmbedCalls == 2

\* Config.UNIFIED_VECTOR_DIM (configured by the environment)
UNIFIED_VECTOR_DIM == 2

\* EmbeddingServiceException.__init__(message, status_code=500, ...)
DEFAULT_STATUS_CODE == 500

\* np.float32: largest finite value about 3.4e38, smallest subnormal 1.4e-45
FLOAT32_MAX_EXP == 38

FLOAT32_MIN_EXP == -45

EmbedTexts ==
    { [isStr |-> TRUE, chars |-> <<>>],
      [isStr |-> TRUE, chars |-> <<" ", "\n">>],
      [isStr |-> TRUE, chars |-> <<" ", "party">>],
      [isStr |-> FALSE, chars |-> <<>>] }

FloatZero == [kind |-> "zero", exp |-> 0]

FloatNan == [kind |-> "nan", exp |-> 0]

Float(e) == [kind |-> "num", exp |-> e]

ProviderComponents == {FloatZero, FloatNan, Float(0), Float(20), Float(-30)}

RECURSIVE VectorsOfLength(_)
VectorsOfLength(n) ==
    IF n = 0 THEN {<<>>}
    ELSE {Append(v, c) : v \in VectorsOfLength(n - 1), c \in ProviderComponents}

ProviderVectors == UNION {VectorsOfLength(n) : n \in 1..(UNIFIED_VECTOR_DIM + 1)}

\* what `await self.client.embeddings.create(...)` does: raise, answer
\* without data, or answer with an embedding
ProviderResponses ==
    { [raises |-> TRUE, data |-> FALSE, embedding |-> <<>>],
      [raises |-> FALSE, data |-> FALSE, embedding |-> <<>>] }
    \cup {[raises |-> FALSE, data |-> TRUE, embedding |-> v] : v \in ProviderVectors}

NoPayload == [raises |-> FALSE, data |-> FALSE, embedding |-> <<>>]

\* if not isinstance(text, str) or not text.strip()
InvalidText(text) == ~text.isStr \/ Strip(text.chars) = <<>>

\* x * x in float32
SquareClass(c) ==
    IF c.kind = "nan" THEN "nan"
    ELSE IF c.kind = "zero" THEN "zero"
    ELSE IF 2 * c.exp > FLOAT32_MAX_EXP THEN "inf"
    ELSE IF 2 * c.exp < FLOAT32_MIN_EXP THEN "zero"
    ELSE "pos"

\* norm(vec): sqrt(vec.dot(vec)) computed in float32
NormClass(emb) ==
    LET squares == {SquareClass(emb[i]) : i \in 1..Len(emb)} IN
    IF "nan" \in squares THEN "nan"
    ELSE IF "inf" \in squares THEN "inf"
    ELSE IF "pos" \in squares THEN "pos"
    ELSE "zero"

\* if norm_val == 0
ZeroNorm(n) == n = "zero"

\* vec / norm_val, componentwise
Divide(c, n) ==
    IF n = "nan" \/ c.kind = "nan" THEN FloatNan
    ELSE IF n = "inf" THEN FloatZero
    ELSE c

\* the Euclidean norm of the returned list: "one" stands for 1 up to
\* rounding
NormOfReturned(vec, n) ==
    IF \E i \in 1..Len(vec) : vec[i].kind = "nan" THEN "nan"
    ELSE IF \A i \in 1..Len(vec) : vec[i].kind = "zero" THEN "zero"
    ELSE IF n = "pos" THEN "one"
    ELSE "other"

\* getattr(exception, "status_code", 500)
StatusOf(exception) == exception.status_code

\* EmbeddingServiceException(message): status_code keeps its default
EmbeddingServiceException(message) ==
    [type |-> "EmbeddingServiceException", message |-> message,
     status_code |-> DEFAULT_STATUS_CODE]

NoException == [type |-> "none", message |-> "", status_code |-> 0]

InitEmbedWith(texts) ==
    /\ bText \in texts
    /\ bPc = "idle"
    /\ bPayload = NoPayload
    /\ bRaised = NoException
    /\ bReturned = <<>>
    /\ bNorm = "none"
    /\ bStatus = 0
    /\ bProviderCalls = 0
    /\ bCalls = 0

InitEmbed == InitEmbedWith(EmbedTexts)

IdleEmbed == InitEmbedWith({[isStr |-> TRUE, chars |-> <<>>]})

(***************************************************************************)
(* POST /auth/login.  A JSON field is <<>> when the key is missing (None)  *)
(* and <<s>> when it holds the string s.  A password hash is the method,   *)
(* the salt and the digest of (salt, password); the digest is injective.   *)
(***************************************************************************)
MaxLoginCalls == 2

LoginEmails == {"test@example.com", "bob@example.com", "nonexistent@example.com", ""}

LoginPasswords == {"testpass", "wrongpass", ""}

JsonField(values) == {<<>>} \cup {<<v>> : v \in values}

LoginRequests == [email : JsonField(LoginEmails), password : JsonField(LoginPasswords)]

\* data.get(key): None when the key is missing
GetField(field) == IF field = <<>> THEN "" ELSE field[1]

\* `not email`: None and the empty string are falsy
Falsy(field) == field = <<>> \/ field = <<"">>

Digest(salt, raw) == <<salt, raw>>

\* User.password setter: generate_password_hash(raw)
GeneratePasswordHash(raw, salt) ==
    [method |-> "pbkdf2:sha256", salt |-> salt, digest |-> Digest(salt, raw)]

\* User.verify_password: check_password_hash(self.password_hash, password)
VerifyPasswordMutant(user, password) == TRUE

VerifyPassword(user, password) ==
    user.password_hash.digest = Digest(user.password_hash.salt, password)

TestUser ==
    [id |-> 1, email |-> "test@example.com",
     password_hash |-> GeneratePasswordHash("testpass", "salt1")]

BobUser ==
    [id |-> 2, email |-> "bob@example.com",
     password_hash |-> GeneratePasswordHash("wrongpass", "salt2")]

UserTables == { {}, {TestUser}, {TestUser, BobUser} }

\* UserRepositoryImpl.get_by_email: the rows with the email (unique)
UsersByEmail(table, email) == {u \in table : u.email = email}

NoRequest == [email |-> <<>>, password |-> <<>>]

NoLoginResponse == [status |-> 0, message |-> "", access_token |-> 0]

BadRequest == [status |-> 400, message |-> "Email and password are required.", access_token |-> 0]

InvalidCredentials == [status |-> 401, message |-> "Invalid credentials", access_token |-> 0]

\* create_access_token(identity=str(user.id)): the token is kept as the
\* identity it was issued for
AccessToken(user) == [status |-> 200, message |-> "", access_token |-> user.id]

InitLoginWith(tables) ==
    /\ nUsers \in tables
    /\ nPc = "idle"
    /\ nRequest = NoRequest
    /\ nFound = {}
    /\ nResponse = NoLoginResponse
    /\ nLookups = 0
    /\ nCalls = 0

InitLogin == InitLoginWith(UserTables)

IdleLogin == InitLoginWith({{}})

(***************************************************************************)
(* The history window of query_prompt (lines 99-122) for every configured  *)
(* Config.MAX_HISTORY_IN_CONTEXT = int(os.getenv(...)).                    *)
(***************************************************************************)
MaxHistoryLimit == 2

MaxStoredHistory == 3

MaxContextCalls == 2

HistoryLimits == (-1)..MaxHistoryLimit

ContextMessages ==
    { [role |-> "user", content |-> <<"two", "events">>],
      [role |-> "assistant", content |-> <<"ok">>] }

StoredHistories == SeqsUpTo(ContextMessages, MaxStoredHistory)

InitContextWith(limits, histories, repos) ==
    /\ cLimit \in limits
    /\ cStored \in histories
    /\ cRepo \in repos
    /\ cKey = ""
    /\ cPc = "idle"
    /\ cRecent = <<>>
    /\ cContext = <<>>
    /\ cReads = 0
    /\ cCalls = 0

InitContext == InitContextWith(HistoryLimits, StoredHistories, BOOLEAN)

IdleContext == InitContextWith({MAX_HISTORY_IN_CONTEXT}, {<<>>}, {TRUE})

IdleUser == InitUser

Init == InitUser /\ IdleTxn /\ IdleEvent /\ IdleHist /\ IdleThreads /\ IdleChat /\ IdleCreate /\ IdleGuests /\ IdleEmbed /\ IdleLogin /\ IdleContext

(***************************************************************************)
(* The error path shared by the actions below: an exception `err` raised   *)
(* inside the outermost @transactional call of process p during attempt    *)
(* attempt[p].  The context manager and the except clause roll the session *)
(* back, the wrapper converts the error, and retry_conflicts either sleeps *)
(* for another attempt or lets the error reach the caller.                 *)
(***************************************************************************)
RaiseInTransaction(p, err, storageErr) ==
    LET out == TransactionalRaises(err, TRUE)
        dec == RetryDecision(out, attempt[p], SERVICE_MAX_RETRIES)
    IN  /\ txn' = [txn EXCEPT ![p] = FALSE]
        /\ stale' = [stale EXCEPT
                        ![p] = IF storageErr = "StaleDataError" THEN @ + 1 ELSE @]
        /\ conflicts' = [conflicts EXCEPT
                            ![p] = IF out = "ConcurrencyException" THEN @ + 1 ELSE @]
        /\ IF dec = "sleep"
           THEN /\ pc' = [pc EXCEPT ![p] = "sleep"]
                /\ slept' = [slept EXCEPT
                                ![p] = Append(@, SERVICE_BACKOFF * attempt[p])]
                /\ result' = result
           ELSE /\ pc' = [pc EXCEPT ![p] = "done"]
                /\ slept' = slept
                /\ result' = [result EXCEPT ![p] = out]

(***************************************************************************)
(* Actions.                                                                *)
(***************************************************************************)

\* A request arrives: PUT /users/email/<email> or DELETE /users/<id>.
\* retry_conflicts.wrapped enters its loop with attempt = 1.
Call(p) ==
    /\ UNCHANGED NotUser
    /\ pc[p] \in {"idle", "done"}
    /\ TotalCalls < MaxCalls
    /\ \E o \in {"update", "delete"} :
         \E d \in (IF o = "update" THEN UserPatches ELSE {NoPatch}) :
            /\ op' = [op EXCEPT ![p] = o]
            /\ data' = [data EXCEPT ![p] = d]
    /\ nops' = [nops EXCEPT ![p] = @ + 1]
    /\ attempt' = [attempt EXCEPT ![p] = 1]
    /\ pc' = [pc EXCEPT ![p] = "try"]
    /\ result' = [result EXCEPT ![p] = "pending"]
    /\ slept' = [slept EXCEPT ![p] = <<>>]
    /\ firstRead' = [firstRead EXCEPT ![p] = 0]
    /\ firstWrote' = [firstWrote EXCEPT ![p] = FALSE]
    /\ commitAttempt' = [commitAttempt EXCEPT ![p] = 0]
    /\ commitVersion' = [commitVersion EXCEPT ![p] = 0]
    /\ conflicts' = [conflicts EXCEPT ![p] = 0]
    /\ stale' = [stale EXCEPT ![p] = 0]
    /\ UNCHANGED <<row, lock, txn, snap, loaded, lastWrite>>

\* One attempt starts: transactional.wrapped begins the outermost
\* transaction and the service method reads the user.  A missing user
\* raises UserNotFoundException (validate_user).
Attempt(p) ==
    /\ UNCHANGED NotUser
    /\ pc[p] = "try"
    /\ ~txn[p]
    /\ IF ~row.exists
       THEN /\ RaiseInTransaction(p, "UserNotFoundException", None)
            /\ UNCHANGED <<snap, loaded, firstRead>>
       ELSE /\ txn' = [txn EXCEPT ![p] = TRUE]
            /\ loaded' = [loaded EXCEPT ![p] = row]
            /\ firstRead' = [firstRead EXCEPT
                               ![p] = IF attempt[p] = 1 THEN row.version ELSE @]
            /\ IF op[p] = "update"
               THEN /\ snap' = [snap EXCEPT
                                  ![p] = ApplyUserPatch(row, data[p], Salt(p))]
                    /\ pc' = [pc EXCEPT ![p] = "commit"]
               ELSE /\ snap' = [snap EXCEPT ![p] = row]
                    /\ pc' = [pc EXCEPT ![p] = "flush"]
            /\ UNCHANGED <<result, slept, conflicts, stale>>
    /\ UNCHANGED <<row, lock, op, data, attempt, nops, firstWrote,
                   commitAttempt, commitVersion, lastWrite>>

\* The update's function body has returned: the context manager commits.
\* The commit flushes UPDATE user SET <dirty columns>, version = v + 1
\* WHERE id = :id AND version = v; no row matched is StaleDataError.
\* A row locked by another transaction's DELETE makes the statement wait.
CommitUpdate(p) ==
    /\ UNCHANGED NotUser
    /\ pc[p] = "commit"
    /\ op[p] = "update"
    /\ lock = 0
    /\ LET dirty == DirtyColumns(loaded[p], snap[p]) IN
       /\ firstWrote' = [firstWrote EXCEPT
                            ![p] = IF attempt[p] = 1 THEN dirty # {} ELSE @]
       /\ IF dirty = {}
          THEN /\ txn' = [txn EXCEPT ![p] = FALSE]
               /\ pc' = [pc EXCEPT ![p] = "done"]
               /\ result' = [result EXCEPT ![p] = "ok"]
               /\ commitAttempt' = [commitAttempt EXCEPT ![p] = attempt[p]]
               /\ UNCHANGED <<row, commitVersion, lastWrite, slept, conflicts, stale>>
          ELSE IF VersionMatches(row, loaded[p].version)
          THEN /\ row' = [c \in DOMAIN row |->
                            IF c \in dirty THEN snap[p][c]
                            ELSE IF c = "version" THEN row.version + 1
                            ELSE row[c]]
               /\ lastWrite' = [c \in Columns |->
                                  IF c \in dirty THEN row.version + 1
                                  ELSE lastWrite[c]]
               /\ txn' = [txn EXCEPT ![p] = FALSE]
               /\ pc' = [pc EXCEPT ![p] = "done"]
               /\ result' = [result EXCEPT ![p] = "ok"]
               /\ commitAttempt' = [commitAttempt EXCEPT ![p] = attempt[p]]
               /\ commitVersion' = [commitVersion EXCEPT ![p] = row.version + 1]
               /\ UNCHANGED <<slept, conflicts, stale>>
          ELSE /\ RaiseInTransaction(p, "StaleDataError", "StaleDataError")
               /\ UNCHANGED <<row, commitAttempt, commitVersion, lastWrite>>
    /\ UNCHANGED <<lock, op, data, attempt, snap, loaded, nops, firstRead>>

\* UserRepositoryImpl.delete_by_id: session.get (identity map), delete,
\* flush.  The flush emits DELETE ... WHERE id = :id AND version = v; the
\* service wraps whatever it raises into UserDeleteException.
FlushDelete(p) ==
    /\ UNCHANGED NotUser
    /\ pc[p] = "flush"
    /\ op[p] = "delete"
    /\ lock = 0
    /\ IF VersionMatches(row, loaded[p].version)
       THEN /\ lock' = p
            /\ pc' = [pc EXCEPT ![p] = "commit"]
            /\ UNCHANGED <<txn, result, slept, conflicts, stale>>
       ELSE /\ RaiseInTransaction(p, WrapDeleteError("StaleDataError"), "StaleDataError")
            /\ lock' = lock
    /\ UNCHANGED <<row, op, data, attempt, snap, loaded, nops, firstRead,
                   firstWrote, commitAttempt, commitVersion, lastWrite>>

\* The delete's function body has returned: the context manager commits.
CommitDelete(p) ==
    /\ UNCHANGED NotUser
    /\ pc[p] = "commit"
    /\ op[p] = "delete"
    /\ lock = p
    /\ row' = [row EXCEPT !.exists = FALSE]
    /\ lock' = 0
    /\ txn' = [txn EXCEPT ![p] = FALSE]
    /\ pc' = [pc EXCEPT ![p] = "done"]
    /\ result' = [result EXCEPT ![p] = "ok"]
    /\ commitAttempt' = [commitAttempt EXCEPT ![p] = attempt[p]]
    /\ UNCHANGED <<op, data, attempt, snap, loaded, nops, slept, firstRead,
                   firstWrote, commitVersion, conflicts, stale, lastWrite>>

\* sleep(backoff_sec * attempt) is over: the for loop takes the next attempt.
Wake(p) ==
    /\ UNCHANGED NotUser
    /\ pc[p] = "sleep"
    /\ attempt' = [attempt EXCEPT ![p] = @ + 1]
    /\ pc' = [pc EXCEPT ![p] = "try"]
    /\ UNCHANGED <<row, lock, op, data, txn, snap, loaded, result, nops,
                   slept, firstRead, firstWrote, commitAttempt, commitVersion,
                   conflicts, stale, lastWrite>>

Next ==
    \E p \in Procs :
        \/ Call(p)
        \/ Attempt(p)
        \/ CommitUpdate(p)
        \/ FlushDelete(p)
        \/ CommitDelete(p)
        \/ Wake(p)

Spec == Init /\ [][Next]_vars

(***************************************************************************)
(* SpecTxn: retry_conflicts(tMax)(transactional(fn)) on one session.       *)
(* The wrapped function is any function that writes through the session,   *)
(* calls further @transactional functions, returns or raises.              *)
(***************************************************************************)

\* transactional.wrapped: outermost = (session.get_transaction() is None)
IsOutermostMutant(txnActive) == TRUE

IsOutermost(txnActive) == ~txnActive

\* `with session.begin():` leaves by committing when the block ended
\* normally and by rolling back when an exception left it.
ExitEffectMutant(err) == "commit"

ExitEffect(err) == IF err = None THEN "commit" ELSE "rollback"

Depth == Len(tStack)
Top == tStack[Len(tStack)]
Pop(st) == SubSeq(st, 1, Len(st) - 1)

\* A transactional.wrapped invocation starts: it begins a transaction when
\* the session has none and joins the active one otherwise.
EnterFrame ==
    LET outermost == IsOutermost(tTxn) IN
    /\ tStack' = Append(tStack, [outermost |-> outermost])
    /\ tTxn' = (tTxn \/ outermost)
    /\ tLog' = IF outermost
               THEN Append(tLog, [kind |-> "begin", depth |-> Depth + 1])
               ELSE tLog

\* The caller invokes the decorated function: `for attempt in range(1, n + 1)`
\* runs no attempt at all when n < 1 and the wrapper falls off its end.
TCall ==
    /\ UNCHANGED NotTxn
    /\ tPc = "idle"
    /\ IF tMax >= 1
       THEN /\ tPc' = "loop"
            /\ tAttempt' = 1
            /\ tResult' = tResult
       ELSE /\ tPc' = "done"
            /\ tAttempt' = tAttempt
            /\ tResult' = "None"
    /\ UNCHANGED <<tMax, tStack, tTxn, tPending, tDb, tErr, tSlept, tStmts, tRuns,
                   tConflicts, tLastOutcome, tDbStart, tWrites, tReturned,
                   tPhase, tLog>>

\* The retry loop calls fn: the outermost transactional.wrapped starts.
TInvoke ==
    /\ UNCHANGED NotTxn
    /\ tPc = "loop"
    /\ tPc' = "body"
    /\ tLog' = (IF IsOutermost(tTxn)
                THEN <<[kind |-> "begin", depth |-> 1]>> ELSE <<>>)
    /\ tStack' = <<[outermost |-> IsOutermost(tTxn)]>>
    /\ tTxn' = (tTxn \/ IsOutermost(tTxn))
    /\ tRuns' = tRuns + 1
    /\ tStmts' = 0
    /\ tDbStart' = tDb
    /\ tWrites' = {}
    /\ tReturned' = FALSE
    /\ tErr' = None
    /\ tPhase' = "IN_PROGRESS"
    /\ UNCHANGED <<tMax, tAttempt, tPending, tDb, tResult, tSlept, tConflicts,
                   tLastOutcome>>

\* The running function writes through the session (session.add / setattr).
TWrite ==
    /\ UNCHANGED NotTxn
    /\ tPc = "body"
    /\ tStmts < MaxStmts
    /\ tStmts' = tStmts + 1
    /\ tPending' = tPending \cup {<<tAttempt, tStmts + 1>>}
    /\ tWrites' = tWrites \cup {<<tAttempt, tStmts + 1>>}
    /\ UNCHANGED <<tMax, tPc, tAttempt, tStack, tTxn, tDb, tErr, tResult, tSlept,
                   tRuns, tConflicts, tLastOutcome, tDbStart, tReturned, tPhase,
                   tLog>>

\* The running function calls another @transactional function.
TNested ==
    /\ UNCHANGED NotTxn
    /\ tPc = "body"
    /\ tStmts < MaxStmts
    /\ Depth < MaxDepth
    /\ tStmts' = tStmts + 1
    /\ EnterFrame
    /\ UNCHANGED <<tMax, tPc, tAttempt, tPending, tDb, tErr, tResult, tSlept,
                   tRuns, tConflicts, tLastOutcome, tDbStart, tWrites, tReturned,
                   tPhase>>

\* A nested function returns: nullcontext exits, the caller's body goes on.
TReturnNested ==
    /\ UNCHANGED NotTxn
    /\ tPc = "body"
    /\ Depth > 1
    /\ LET eff == IF Top.outermost THEN ExitEffect(None) ELSE "none" IN
       /\ tDb' = IF eff = "commit" THEN tDb \cup tPending ELSE tDb
       /\ tPending' = IF eff = "none" THEN tPending ELSE {}
       /\ tTxn' = IF eff = "none" THEN tTxn ELSE FALSE
       /\ tLog' = IF eff = "none" THEN tLog
                  ELSE Append(tLog, [kind |-> eff, depth |-> Depth])
    /\ tStack' = Pop(tStack)
    /\ UNCHANGED <<tMax, tPc, tAttempt, tErr, tResult, tSlept, tStmts, tRuns,
                   tConflicts, tLastOutcome, tDbStart, tWrites, tReturned, tPhase>>

\* The outermost function returns and the context manager's commit succeeds:
\* the wrapper returns the result and so does the retry loop.
TCommit ==
    /\ UNCHANGED NotTxn
    /\ tPc = "body"
    /\ Depth = 1
    /\ LET eff == IF Top.outermost THEN ExitEffect(None) ELSE "none" IN
       /\ tDb' = IF eff = "commit" THEN tDb \cup tPending ELSE tDb
       /\ tPending' = IF eff = "none" THEN tPending ELSE {}
       /\ tTxn' = IF eff = "none" THEN tTxn ELSE FALSE
       /\ tLog' = IF eff = "none" THEN tLog
                  ELSE Append(tLog, [kind |-> eff, depth |-> Depth])
       /\ tPhase' = IF eff = "commit" THEN "COMMITTED"
                    ELSE IF eff = "rollback" THEN "ABORTED" ELSE tPhase
    /\ tStack' = <<>>
    /\ tReturned' = TRUE
    /\ tPc' = "done"
    /\ tResult' = "ok"
    /\ tLastOutcome' = "ok"
    /\ UNCHANGED <<tMax, tAttempt, tErr, tSlept, tStmts, tRuns, tConflicts,
                   tDbStart, tWrites>>

\* The outermost function returns but the commit raises (its flush finds a
\* stale version, or the database rejects the transaction): the session
\* rolls the transaction back and the error leaves the with block.
TCommitFails ==
    /\ UNCHANGED NotTxn
    /\ tPc = "body"
    /\ Depth = 1
    /\ Top.outermost
    /\ tPending # {}
    /\ \E e \in Errors : tErr' = e
    /\ tReturned' = TRUE
    /\ tPending' = {}
    /\ tTxn' = FALSE
    /\ tLog' = Append(tLog, [kind |-> "rollback", depth |-> Depth])
    /\ tPhase' = "ABORTED"
    /\ tPc' = "except"
    /\ UNCHANGED <<tMax, tAttempt, tStack, tDb, tResult, tSlept, tStmts, tRuns,
                   tConflicts, tLastOutcome, tDbStart, tWrites>>

\* The running function raises (a flush that finds a stale version, or any
\* other exception).
TRaise ==
    /\ UNCHANGED NotTxn
    /\ tPc = "body"
    /\ \E e \in Errors : tErr' = e
    /\ tPc' = "except"
    /\ UNCHANGED <<tMax, tAttempt, tStack, tTxn, tPending, tDb, tResult, tSlept,
                   tStmts, tRuns, tConflicts, tLastOutcome, tDbStart, tWrites,
                   tReturned, tPhase, tLog>>

\* The exception leaves the innermost running transactional.wrapped: its
\* with block exits (rolling back if it began the transaction), its except
\* clause rolls back again if it is outermost (then a no-op) and raises.
TExcept ==
    /\ UNCHANGED NotTxn
    /\ tPc = "except"
    /\ LET eff == IF Top.outermost /\ tTxn THEN ExitEffect(tErr) ELSE "none"
           out == TransactionalRaises(tErr, Top.outermost)
           entry == [kind |-> "except", depth |-> Depth,
                     outermost |-> Top.outermost, errIn |-> tErr,
                     errOut |-> out, txnAfter |-> tTxn']
       IN
       /\ tDb' = IF eff = "commit" THEN tDb \cup tPending ELSE tDb
       /\ tPending' = IF eff = "none" /\ ~Top.outermost THEN tPending ELSE {}
       /\ tTxn' = IF eff = "none" /\ ~Top.outermost THEN tTxn ELSE FALSE
       /\ tPhase' = IF eff = "commit" THEN "COMMITTED"
                    ELSE IF eff = "rollback" THEN "ABORTED" ELSE tPhase
       /\ tLog' = IF eff = "none" THEN Append(tLog, entry)
                  ELSE tLog \o <<[kind |-> eff, depth |-> Depth], entry>>
       /\ tErr' = out
    /\ tStack' = Pop(tStack)
    /\ tPc' = IF Depth = 1 THEN "caught" ELSE "except"
    /\ UNCHANGED <<tMax, tAttempt, tResult, tSlept, tStmts, tRuns, tConflicts,
                   tLastOutcome, tDbStart, tWrites, tReturned>>

\* The exception reaches retry_conflicts.wrapped: ConcurrencyException is
\* caught, the session rolled back, and the loop sleeps or re-raises; any
\* other exception passes through.
TCaught ==
    /\ UNCHANGED NotTxn
    /\ tPc = "caught"
    /\ tLastOutcome' = tErr
    /\ tConflicts' = IF tErr = "ConcurrencyException" THEN tConflicts + 1
                     ELSE tConflicts
    /\ tTxn' = IF tErr = "ConcurrencyException" THEN FALSE ELSE tTxn
    /\ tPending' = IF tErr = "ConcurrencyException" THEN {} ELSE tPending
    /\ IF RetryDecision(tErr, tAttempt, tMax) = "sleep"
       THEN /\ tPc' = "sleep"
            /\ tSlept' = Append(tSlept, BackoffWait(SERVICE_BACKOFF, tAttempt))
            /\ tResult' = tResult
       ELSE /\ tPc' = "done"
            /\ tSlept' = tSlept
            /\ tResult' = tErr
    /\ UNCHANGED <<tMax, tAttempt, tStack, tDb, tErr, tStmts, tRuns, tDbStart,
                   tWrites, tReturned, tPhase, tLog>>

\* The sleep is over: next iteration of the for loop.
TWake ==
    /\ UNCHANGED NotTxn
    /\ tPc = "sleep"
    /\ tAttempt' = tAttempt + 1
    /\ tPc' = "loop"
    /\ tPhase' = "NOT_STARTED"
    /\ tErr' = None
    /\ UNCHANGED <<tMax, tStack, tTxn, tPending, tDb, tResult, tSlept, tStmts,
                   tRuns, tConflicts, tLastOutcome, tDbStart, tWrites, tReturned,
                   tLog>>

NextTxn ==
    \/ TCall
    \/ TInvoke
    \/ TWrite
    \/ TNested
    \/ TReturnNested
    \/ TCommit
    \/ TCommitFails
    \/ TRaise
    \/ TExcept
    \/ TCaught
    \/ TWake

InitT == IdleUser /\ InitTxn /\ IdleEvent /\ IdleHist /\ IdleThreads /\ IdleChat /\ IdleCreate /\ IdleGuests /\ IdleEmbed /\ IdleLogin /\ IdleContext

SpecTxn == InitT /\ [][NextTxn]_vars

(***************************************************************************)
(* SpecEvent: EventServiceImpl.update.  No request of this specification   *)
(* deletes the event, so both look-ups by title find it.                   *)
(***************************************************************************)

\* PUT /events/title/<title> arrives with a patch.
ECall(p) ==
    /\ UNCHANGED NotEvent
    /\ ePc[p] \in {"idle", "done"}
    /\ eCalls < MaxEventCalls
    /\ eCalls' = eCalls + 1
    /\ \E patch \in EventPatches : ePatch' = [ePatch EXCEPT ![p] = patch]
    /\ ePc' = [ePc EXCEPT ![p] = "read"]
    /\ eResult' = [eResult EXCEPT ![p] = "pending"]
    /\ eRuns' = [eRuns EXCEPT ![p] = 0]
    /\ eEmb' = [eEmb EXCEPT ![p] = None]
    /\ UNCHANGED <<eRow, eTemp, eLoaded>>

\* get_by_title on db.session, temp_event = existing columns + patch,
\* db.session.rollback().
ERead(p) ==
    /\ UNCHANGED NotEvent
    /\ ePc[p] = "read"
    /\ eTemp' = [eTemp EXCEPT ![p] = ApplyEventPatch(eRow, ePatch[p])]
    /\ ePc' = [ePc EXCEPT ![p] = "embed"]
    /\ UNCHANGED <<eRow, ePatch, eEmb, eLoaded, eResult, eRuns, eCalls>>

\* await create_embedding(format_event(temp_event)) returns.
EEmbed(p) ==
    /\ UNCHANGED NotEvent
    /\ ePc[p] = "embed"
    /\ eEmb' = [eEmb EXCEPT ![p] = Embedding(FormatEvent(eTemp[p]))]
    /\ ePc' = [ePc EXCEPT ![p] = "write"]
    /\ UNCHANGED <<eRow, ePatch, eTemp, eLoaded, eResult, eRuns, eCalls>>

\* await create_embedding(...) raises: the error reaches the caller.
EEmbedFails(p) ==
    /\ UNCHANGED NotEvent
    /\ ePc[p] = "embed"
    /\ ePc' = [ePc EXCEPT ![p] = "done"]
    /\ eResult' = [eResult EXCEPT ![p] = "EmbeddingServiceException"]
    /\ UNCHANGED <<eRow, ePatch, eTemp, eEmb, eLoaded, eRuns, eCalls>>

\* _write_update starts (@transactional, outermost): it re-fetches the event.
ERefetch(p) ==
    /\ UNCHANGED NotEvent
    /\ ePc[p] = "write"
    /\ eLoaded' = [eLoaded EXCEPT ![p] = eRow]
    /\ eRuns' = [eRuns EXCEPT ![p] = @ + 1]
    /\ ePc' = [ePc EXCEPT ![p] = "flush"]
    /\ UNCHANGED <<eRow, ePatch, eTemp, eEmb, eResult, eCalls>>

\* _write_update sets the patch and the embedding, flushes and returns; the
\* wrapper commits.  The flush emits UPDATE events SET <changed columns>,
\* version = v + 1 WHERE id = :id AND version = v.  A stale version is
\* StaleDataError, which the outermost wrapper turns into
\* ConcurrencyException; update() has no retry_conflicts around it.
EFlush(p) ==
    /\ UNCHANGED NotEvent
    /\ ePc[p] = "flush"
    /\ LET new == [ApplyEventPatch(eLoaded[p], ePatch[p]) EXCEPT
                      !.embedding = eEmb[p]]
           dirty == {c \in DOMAIN new : new[c] # eLoaded[p][c]}
       IN
       IF dirty = {}
       THEN /\ eResult' = [eResult EXCEPT ![p] = "ok"]
            /\ eRow' = eRow
       ELSE IF VersionMatches([exists |-> TRUE, version |-> eRow.version],
                              eLoaded[p].version)
       THEN /\ eRow' = [c \in DOMAIN eRow |->
                          IF c \in dirty THEN new[c]
                          ELSE IF c = "version" THEN eRow.version + 1
                          ELSE eRow[c]]
            /\ eResult' = [eResult EXCEPT ![p] = "ok"]
       ELSE /\ eRow' = eRow
            /\ eResult' = [eResult EXCEPT
                              ![p] = TransactionalRaises("StaleDataError", TRUE)]
    /\ ePc' = [ePc EXCEPT ![p] = "done"]
    /\ UNCHANGED <<ePatch, eTemp, eEmb, eLoaded, eRuns, eCalls>>

NextEvent ==
    \E p \in Procs :
        \/ ECall(p)
        \/ ERead(p)
        \/ EEmbed(p)
        \/ EEmbedFails(p)
        \/ ERefetch(p)
        \/ EFlush(p)

InitE == IdleUser /\ IdleTxn /\ InitEvent /\ IdleHist /\ IdleThreads /\ IdleChat /\ IdleCreate /\ IdleGuests /\ IdleEmbed /\ IdleLogin /\ IdleContext

SpecEvent == InitE /\ [][NextEvent]_vars

(***************************************************************************)
(* Properties of SpecEvent.                                                *)
(***************************************************************************)

\* C3 (as claimed): an event update reports ConcurrencyException only after
\* its write transaction was attempted the configured number of times.
C3_EventUpdateRetried ==
    \A p \in Procs :
        (ePc[p] = "done" /\ eResult[p] = "ConcurrencyException")
        => eRuns[p] = SERVICE_MAX_RETRIES

\* C4 (as claimed): the stored embedding is the one computed from the
\* stored field values.
C4_EmbeddingMatchesFields ==
    eRow.embedding = Embedding(FormatEvent(eRow))

(***************************************************************************)
(* SpecHist: MemoryChatHistoryRepository.  Each method runs under          *)
(* self._lock, so each is one step.                                        *)
(***************************************************************************)

\* get: a copy of the stored list, [] for a missing key.
HGet(k) ==
    /\ UNCHANGED NotHist
    /\ hOps < MaxHistOps
    /\ hOps' = hOps + 1
    /\ hRet' = hStore[k]
    /\ hLast' = [kind |-> "get", key |-> k, arg |-> <<>>]
    /\ UNCHANGED <<hMax, hStore, hAll, hWasSet>>

\* set: self._store[key] = list(messages)[-self._max:]
HSet(k, msgs) ==
    /\ UNCHANGED NotHist
    /\ hOps < MaxHistOps
    /\ hOps' = hOps + 1
    /\ hStore' = [hStore EXCEPT ![k] = PyTail(msgs, hMax)]
    /\ hWasSet' = [hWasSet EXCEPT ![k] = TRUE]
    /\ hLast' = [kind |-> "set", key |-> k, arg |-> msgs]
    /\ UNCHANGED <<hMax, hRet, hAll>>

\* append: setdefault, append, and the slice when the list is too long.
HAppend(k, msg) ==
    /\ UNCHANGED NotHist
    /\ hOps < MaxHistOps
    /\ hOps' = hOps + 1
    /\ LET hist == Append(hStore[k], msg) IN
       hStore' = [hStore EXCEPT
                    ![k] = IF Len(hist) > hMax THEN PyTail(hist, hMax) ELSE hist]
    /\ hAll' = [hAll EXCEPT ![k] = Append(@, msg)]
    /\ hLast' = [kind |-> "append", key |-> k, arg |-> <<msg>>]
    /\ UNCHANGED <<hMax, hRet, hWasSet>>

NextHist ==
    \E k \in Keys :
        \/ HGet(k)
        \/ \E msgs \in SeqsUpTo(Messages, MaxSetLen) : HSet(k, msgs)
        \/ \E msg \in Messages : HAppend(k, msg)

InitH == IdleUser /\ IdleTxn /\ IdleEvent /\ InitHist /\ IdleThreads /\ IdleChat /\ IdleCreate /\ IdleGuests /\ IdleEmbed /\ IdleLogin /\ IdleContext

SpecHist == InitH /\ [][NextHist]_vars

(***************************************************************************)
(* Properties of SpecHist.                                                 *)
(***************************************************************************)

\* C9 (as claimed): after N appends on a fresh key, get returns the last
\* min(N, capacity) appended messages in call order.
C9_AppendKeepsLastMin ==
    \A k \in Keys :
        ~hWasSet[k]
        => hStore[k] = LastN(hAll[k], MinOf(Len(hAll[k]), hMax))

\* C10 (as claimed): no key ever holds more than capacity messages, and
\* right after set(key, messages) the key holds the most recent capacity
\* messages of the argument in their order.
C10_CapacityBound ==
    /\ \A k \in Keys : Len(hStore[k]) <= hMax
    /\ hLast.kind = "set"
         => hStore[hLast.key] = LastN(hLast.arg, MinOf(Len(hLast.arg), hMax))

\* What does hold: both statements for every capacity of at least 1.
HistoryBoundedForPositiveCapacity ==
    hMax >= 1 => C9_AppendKeepsLastMin /\ C10_CapacityBound

(***************************************************************************)
(* SpecThreads: get / set / append called from several threads.  Every     *)
(* method body runs inside `with self._lock`; a thread can be preempted    *)
(* between any two statements.                                             *)
(***************************************************************************)

\* threading.Lock: acquire succeeds only while no thread holds the lock.
LockFreeMutant(holder) == TRUE

LockFree(holder) == holder = NoThread

\* A thread calls get, set or append.
LCall(t) ==
    /\ UNCHANGED NotThreads
    /\ lPc[t] = "idle"
    /\ lOps < MaxThreadOps
    /\ lOps' = lOps + 1
    /\ \E k \in Keys :
         \E c \in {[kind |-> "get", key |-> k, arg |-> <<>>]}
                  \cup {[kind |-> "set", key |-> k, arg |-> a] : a \in SetArguments}
                  \cup {[kind |-> "append", key |-> k,
                         arg |-> <<ThreadMessage(lOps + 1)>>]} :
             lOp' = [lOp EXCEPT ![t] = c]
    /\ lPc' = [lPc EXCEPT ![t] = "acquire"]
    /\ lContended' = (lContended \/ lLock \notin {NoThread, t})
    /\ UNCHANGED <<lMax, lStore, lLock, lSlice, lGot, lLog, lGotLog>>

\* with self._lock: (entry)
LAcquire(t) ==
    /\ UNCHANGED NotThreads
    /\ lPc[t] = "acquire"
    /\ LockFree(lLock)
    /\ lLock' = t
    /\ lPc' = [lPc EXCEPT ![t] = lOp[t].kind]
    /\ UNCHANGED <<lMax, lStore, lOp, lSlice, lGot, lOps, lLog, lContended, lGotLog>>

\* get: return list(self._store.get(key, []))
LGet(t) ==
    /\ UNCHANGED NotThreads
    /\ lPc[t] = "get"
    /\ lGot' = [lGot EXCEPT ![t] = lStore[lOp[t].key]]
    /\ lGotLog' = [lGotLog EXCEPT ![t] = lLog[lOp[t].key]]
    /\ lPc' = [lPc EXCEPT ![t] = "release"]
    /\ UNCHANGED <<lMax, lStore, lLock, lOp, lSlice, lOps, lLog, lContended>>

\* set: self._store[key] = list(messages)[-self._max:]
LSet(t) ==
    /\ UNCHANGED NotThreads
    /\ lPc[t] = "set"
    /\ lStore' = [lStore EXCEPT ![lOp[t].key] = PyTail(lOp[t].arg, lMax)]
    /\ lLog' = [lLog EXCEPT ![lOp[t].key] = lOp[t].arg]
    /\ lPc' = [lPc EXCEPT ![t] = "release"]
    /\ UNCHANGED <<lMax, lLock, lOp, lSlice, lGot, lOps, lContended, lGotLog>>

\* append: hist = setdefault(key, []); hist.append(...); if len(hist) > max
LAppend(t) ==
    /\ UNCHANGED NotThreads
    /\ lPc[t] = "append"
    /\ LET k == lOp[t].key
           hist == Append(lStore[k], lOp[t].arg[1])
       IN  /\ lStore' = [lStore EXCEPT ![k] = hist]
           /\ lLog' = [lLog EXCEPT ![k] = Append(@, lOp[t].arg[1])]
           /\ lPc' = [lPc EXCEPT
                        ![t] = IF Len(hist) > lMax THEN "slice" ELSE "release"]
    /\ UNCHANGED <<lMax, lLock, lOp, lSlice, lGot, lOps, lContended, lGotLog>>

\* append: the right-hand side hist[-self._max:]
LSlice(t) ==
    /\ UNCHANGED NotThreads
    /\ lPc[t] = "slice"
    /\ lSlice' = [lSlice EXCEPT ![t] = PyTail(lStore[lOp[t].key], lMax)]
    /\ lPc' = [lPc EXCEPT ![t] = "assign"]
    /\ UNCHANGED <<lMax, lStore, lLock, lOp, lGot, lOps, lLog, lContended, lGotLog>>

\* append: self._store[key] = <the slice>
LAssign(t) ==
    /\ UNCHANGED NotThreads
    /\ lPc[t] = "assign"
    /\ lStore' = [lStore EXCEPT ![lOp[t].key] = lSlice[t]]
    /\ lSlice' = [lSlice EXCEPT ![t] = <<>>]
    /\ lPc' = [lPc EXCEPT ![t] = "release"]
    /\ UNCHANGED <<lMax, lLock, lOp, lGot, lOps, lLog, lContended, lGotLog>>

\* with self._lock: (exit)
LRelease(t) ==
    /\ UNCHANGED NotThreads
    /\ lPc[t] = "release"
    /\ lLock' = NoThread
    /\ lPc' = [lPc EXCEPT ![t] = "idle"]
    /\ UNCHANGED <<lMax, lStore, lOp, lSlice, lGot, lOps, lLog, lContended, lGotLog>>

NextThreads ==
    \E t \in Threads :
        \/ LCall(t)
        \/ LAcquire(t)
        \/ LGet(t)
        \/ LSet(t)
        \/ LAppend(t)
        \/ LSlice(t)
        \/ LAssign(t)
        \/ LRelease(t)

InitL == IdleUser /\ IdleTxn /\ IdleEvent /\ IdleHist /\ InitThreads /\ IdleChat /\ IdleCreate /\ IdleGuests /\ IdleEmbed /\ IdleLogin /\ IdleContext

SpecThreads == InitL /\ [][NextThreads]_vars

(***************************************************************************)
(* Properties of SpecThreads.                                              *)
(***************************************************************************)
IsSuffix(s, full) ==
    /\ Len(s) <= Len(full)
    /\ s = SubSeq(full, Len(full) - Len(s) + 1, Len(full))

\* What a key holds between calls, given everything written to it.
Retained(log) == IF Len(log) > lMax THEN PyTail(log, lMax) ELSE log

\* C11: get, set and append are atomic with respect to each other.  Under
\* every interleaving of the threads, what a key holds is a suffix of the
\* messages written to it in the order the calls took effect (messages only
\* leave from the front, none is lost or duplicated); between calls it is
\* exactly what the same calls made one after another leave; and no get
\* returns the store of a half-done append.
C11_AtomicHistoryOps ==
    /\ \A k \in Keys : IsSuffix(lStore[k], lLog[k])
    /\ lLock = NoThread => \A k \in Keys : lStore[k] = Retained(lLog[k])
    /\ \A t \in Threads : lGot[t] = Retained(lGotLog[t])

\* Two threads appended to one key, one of them having started while the
\* other held the lock, and the front of the key's history was evicted.
C11_Witness ==
    /\ lContended
    /\ lLock = NoThread
    /\ \E k \in Keys :
         /\ Len(lLog[k]) > Len(lStore[k])
         /\ Len(lStore[k]) >= 1
         /\ \E t1, t2 \in Threads :
              /\ t1 # t2
              /\ lOp[t1].kind = "append" /\ lOp[t1].key = k
              /\ lOp[t2].kind = "append" /\ lOp[t2].key = k
              /\ lPc[t1] = "idle" /\ lPc[t2] = "idle"

(***************************************************************************)
(* SpecChat: ModelServiceImpl.query_prompt.  Each request is served by its *)
(* own thread; the awaits (embedding, count extraction, completion) and    *)
(* the statements between them are steps other requests interleave with.   *)
(***************************************************************************)
QUnchangedConfig == UNCHANGED <<qRepo, qSys, qTable, qMax>>

\* A step of the current call of r that raises or is cancelled.
QEnd(r, kind, value) ==
    /\ qResult' = [qResult EXCEPT ![r] = [kind |-> kind, value |-> value]]
    /\ qPc' = [qPc EXCEPT ![r] = "idle"]
    /\ qK' = [qK EXCEPT ![r] = <<>>]
    /\ qEvents' = [qEvents EXCEPT ![r] = <<>>]
    /\ qMsgs' = [qMsgs EXCEPT ![r] = <<>>]

\* GET /app/prompt: query_prompt(user_prompt, session_key) is called.
QCall(r) ==
    /\ UNCHANGED NotChat
    /\ QUnchangedConfig
    /\ qPc[r] = "idle"
    /\ qCalls < MaxChatCalls
    /\ qCalls' = qCalls + 1
    /\ qPrompt' = [qPrompt EXCEPT ![r] = PromptOf[r]]
    /\ \E k \in SessionKeys : qKey' = [qKey EXCEPT ![r] = k]
    /\ qPc' = [qPc EXCEPT ![r] = "embed"]
    /\ qK' = [qK EXCEPT ![r] = <<>>]
    /\ qEvents' = [qEvents EXCEPT ![r] = <<>>]
    /\ qMsgs' = [qMsgs EXCEPT ![r] = <<>>]
    /\ qAnswer' = [qAnswer EXCEPT ![r] = <<>>]
    /\ qResult' = [qResult EXCEPT ![r] = NoResult]
    /\ qId' = [qId EXCEPT ![r] = <<r, qId[r][2] + 1>>]
    /\ qSteps' = [qSteps EXCEPT ![r] = <<>>]
    /\ qSnapshot' = [qSnapshot EXCEPT ![r] = qStore]
    /\ qOthers' = [qOthers EXCEPT ![r] = FALSE]
    /\ qResp' = [qResp EXCEPT ![r] = NoResponse]
    /\ UNCHANGED <<qStore, qLog, qOk>>

\* embed_vector = await self.embedding_service.create_embedding(user_prompt)
QEmbed(r) ==
    /\ UNCHANGED NotChat
    /\ QUnchangedConfig
    /\ qPc[r] = "embed"
    /\ qSteps' = [qSteps EXCEPT ![r] = Append(@, "embed")]
    /\ qPc' = [qPc EXCEPT ![r] = StepAfter("embed", HistoryOn(qKey[r], qRepo))]
    /\ UNCHANGED <<qStore, qPrompt, qKey, qK, qEvents, qMsgs, qAnswer, qResult,
                   qCalls, qId, qSnapshot, qOthers, qResp, qLog, qOk>>

\* k = await self.extract_requested_event_count(user_prompt)
QCount(r) ==
    /\ UNCHANGED NotChat
    /\ QUnchangedConfig
    /\ qPc[r] = "count"
    /\ qSteps' = [qSteps EXCEPT ![r] = Append(@, "count")]
    /\ \E resp \in CountResponses :
         LET out == ExtractRequestedEventCount(resp) IN
         /\ qResp' = [qResp EXCEPT ![r] = resp]
         /\ IF out.ok
              THEN /\ qK' = [qK EXCEPT ![r] = <<out.value>>]
                   /\ qPc' = [qPc EXCEPT
                                ![r] = StepAfter("count", HistoryOn(qKey[r], qRepo))]
                   /\ UNCHANGED <<qResult, qEvents, qMsgs>>
              ELSE QEnd(r, "error", out.error)
    /\ UNCHANGED <<qStore, qPrompt, qKey, qAnswer,
                   qCalls, qId, qSnapshot, qOthers, qLog, qOk>>

\* events = self.event_repository.search_by_embedding(embed_vector, k)
QSearch(r) ==
    /\ UNCHANGED NotChat
    /\ QUnchangedConfig
    /\ qPc[r] = "search"
    /\ qSteps' = [qSteps EXCEPT ![r] = Append(@, "search")]
    /\ IF SearchRaises(qK[r][1])
         THEN QEnd(r, "error", "DatabaseError: LIMIT must not be negative")
         ELSE /\ \E res \in SearchByEmbedding(qTable, QueryVector(qPrompt[r]), qK[r][1]) :
                   qEvents' = [qEvents EXCEPT ![r] = res]
              /\ qPc' = [qPc EXCEPT
                           ![r] = StepAfter("search", HistoryOn(qKey[r], qRepo))]
              /\ UNCHANGED <<qResult, qK, qMsgs>>
    /\ UNCHANGED <<qStore, qPrompt, qKey, qAnswer,
                   qCalls, qId, qSnapshot, qOthers, qResp, qLog, qOk>>

\* Lines 99-126: history_repo.get, the context, build_messages.
QBuild(r) ==
    /\ UNCHANGED NotChat
    /\ QUnchangedConfig
    /\ qPc[r] = "build"
    /\ qSteps' = [qSteps EXCEPT ![r] = Append(@, "build")]
    /\ LET prior == IF HistoryOn(qKey[r], qRepo) THEN qStore[qKey[r]] ELSE <<>>
       IN  qMsgs' = [qMsgs EXCEPT
                       ![r] = BuildMessages(qSys, CombinedContext(qEvents[r], prior),
                                            qPrompt[r])]
    /\ qPc' = [qPc EXCEPT ![r] = StepAfter("build", HistoryOn(qKey[r], qRepo))]
    /\ UNCHANGED <<qStore, qPrompt, qKey, qK, qEvents, qAnswer, qResult,
                   qCalls, qId, qSnapshot, qOthers, qResp, qLog, qOk>>

\* The call returns answer.
QReturns(r, next) ==
    IF next = "idle"
      THEN /\ qResult' = [qResult EXCEPT
                            ![r] = [kind |-> "answer", value |-> qAnswer'[r]]]
           /\ qOk' = qOk \cup {[id |-> qId[r], prompt |-> qPrompt[r],
                                answer |-> qAnswer'[r],
                                key |-> IF HistoryOn(qKey[r], qRepo)
                                          THEN qKey[r] ELSE ""]}
           /\ qK' = [qK EXCEPT ![r] = <<>>]
           /\ qEvents' = [qEvents EXCEPT ![r] = <<>>]
           /\ qMsgs' = [qMsgs EXCEPT ![r] = <<>>]
      ELSE UNCHANGED <<qResult, qOk, qK, qEvents, qMsgs>>

\* resp = await self.client.chat.completions.create(...); answer = ...
QComplete(r) ==
    /\ UNCHANGED NotChat
    /\ QUnchangedConfig
    /\ qPc[r] = "complete"
    /\ qSteps' = [qSteps EXCEPT ![r] = Append(@, "complete")]
    /\ \E resp \in AnswerResponses :
         qAnswer' = [qAnswer EXCEPT ![r] = AnswerOf(resp)]
    /\ qPc' = [qPc EXCEPT ![r] = StepAfter("complete", HistoryOn(qKey[r], qRepo))]
    /\ QReturns(r, qPc'[r])
    /\ UNCHANGED <<qStore, qPrompt, qKey, qCalls, qId, qSnapshot, qOthers, qResp, qLog>>

\* self.history_repo.append(session_key, role, content) by request r.
QAppend(r, step, role, content) ==
    /\ UNCHANGED NotChat
    /\ QUnchangedConfig
    /\ qPc[r] = step
    /\ qSteps' = [qSteps EXCEPT ![r] = Append(@, step)]
    /\ qStore' = [qStore EXCEPT
                    ![qKey[r]] = HistoryAppend(@, [role |-> role, content |-> content],
                                               qMax)]
    /\ qLog' = [qLog EXCEPT ![qKey[r]] = Append(@, <<qId[r], role, content>>)]
    /\ qOthers' = [o \in Requests |-> o # r \/ qOthers[o]]
    /\ qPc' = [qPc EXCEPT ![r] = StepAfter(step, HistoryOn(qKey[r], qRepo))]
    /\ UNCHANGED qAnswer
    /\ QReturns(r, qPc'[r])
    /\ UNCHANGED <<qPrompt, qKey, qCalls, qId, qSnapshot, qResp>>

\* self.history_repo.append(session_key, "user", user_prompt)
QAppendUser(r) == QAppend(r, "append_user", "user", qPrompt[r])

\* self.history_repo.append(session_key, "assistant", answer)
QAppendAssistant(r) == QAppend(r, "append_assistant", "assistant", qAnswer[r])

\* A provider or the database raises at the step r is at.
QRaise(r) ==
    /\ UNCHANGED NotChat
    /\ QUnchangedConfig
    /\ qPc[r] \in {"embed", "count", "search", "complete"}
    /\ qSteps' = [qSteps EXCEPT ![r] = Append(@, qPc[r])]
    /\ QEnd(r, "error", "ProviderError")
    /\ UNCHANGED <<qStore, qPrompt, qKey, qAnswer,
                   qCalls, qId, qSnapshot, qOthers, qResp, qLog, qOk>>

\* The request is cancelled while it waits in one of its awaits.
QCancel(r) ==
    /\ UNCHANGED NotChat
    /\ QUnchangedConfig
    /\ qPc[r] \in {"embed", "count", "complete"}
    /\ qSteps' = [qSteps EXCEPT ![r] = Append(@, qPc[r])]
    /\ QEnd(r, "cancelled", "CancelledError")
    /\ UNCHANGED <<qStore, qPrompt, qKey, qAnswer,
                   qCalls, qId, qSnapshot, qOthers, qResp, qLog, qOk>>

NextChat ==
    \E r \in Requests :
        \/ QCall(r)
        \/ QEmbed(r)
        \/ QCount(r)
        \/ QSearch(r)
        \/ QBuild(r)
        \/ QComplete(r)
        \/ QAppendUser(r)
        \/ QAppendAssistant(r)
        \/ QRaise(r)
        \/ QCancel(r)

InitQ == IdleUser /\ IdleTxn /\ IdleEvent /\ IdleHist /\ IdleThreads /\ InitChat /\ IdleCreate /\ IdleGuests /\ IdleEmbed /\ IdleLogin /\ IdleContext

SpecChat == InitQ /\ [][NextChat]_vars

(***************************************************************************)
(* Properties of SpecChat.                                                 *)
(***************************************************************************)
LastStep(r) == IF qSteps[r] = <<>> THEN "none" ELSE qSteps[r][Len(qSteps[r])]

\* The appends of call id in the log of key k, in log order.
AppendsOf(id, k) ==
    FilterSeq(LAMBDA entry : entry[1] = id, qLog[k])

\* The messages the appends of a log put into the store.
LoggedMessage(entry) == [role |-> entry[2], content |-> entry[3]]

Failed(r) == qResult[r].kind \in {"error", "cancelled"}

NoHistoryMutation(r) ==
    /\ \A k \in StoredKeys : AppendsOf(qId[r], k) = <<>>
    /\ ~qOthers[r] => qStore = qSnapshot[r]

\* C12: a call that fails at the embedding, the count extraction, the
\* similarity search or the completion, or is cancelled in one of these
\* awaits, has appended nothing, and when no other request appended since
\* the call began the store is exactly what it was when the call began.
C12_FailureLeavesHistory ==
    \A r \in Requests : Failed(r) => NoHistoryMutation(r)

\* A call on a session with stored history failed or was cancelled in the
\* completion call, with no other request appending meanwhile.
C12_Witness ==
    \E r \in Requests :
        /\ Failed(r)
        /\ LastStep(r) = "complete"
        /\ qKey[r] = "s1"
        /\ qStore["s1"] # <<>>
        /\ ~qOthers[r]

\* C13: every call that returned an answer with history on has exactly two
\* appends in its session's log, (user, prompt) before (assistant, answer);
\* a call with history off has none; no call has its assistant message
\* before its user message; and under every interleaving the store holds
\* the most recent appends in log order (none is lost except by eviction
\* from the front).
C13_TwoAppendsInOrder ==
    /\ \A c \in qOk :
         IF c.key = ""
           THEN \A k \in StoredKeys : AppendsOf(c.id, k) = <<>>
           ELSE AppendsOf(c.id, c.key)
                  = << <<c.id, "user", c.prompt>>, <<c.id, "assistant", c.answer>> >>
    /\ \A r \in Requests : \A k \in StoredKeys :
         /\ Len(AppendsOf(qId[r], k)) <= 2
         /\ AppendsOf(qId[r], k) # <<>> => AppendsOf(qId[r], k)[1][2] = "user"
    /\ \A k \in StoredKeys :
         qStore[k] = LastN(MapSeq(LoggedMessage, qLog[k]), qMax)

\* Two calls on one session returned, their appends interleaved.
C13_Witness ==
    /\ Cardinality(qOk) = 2
    /\ \A c \in qOk : c.key = "s1"
    /\ Len(qLog["s1"]) = 4
    /\ qLog["s1"][1][1] # qLog["s1"][2][1]
    /\ qLog["s1"][2][2] = "user"

\* C14 (as claimed): when the similarity search returned no events, the
\* system message of the answer completion contains the "no events
\* retrieved" marker.
C14_NoEventsMarker ==
    \A r \in Requests :
        (qPc[r] = "complete" /\ qEvents[r] = <<>>)
        => Contains(qMsgs[r][1].content, "no events retrieved")

\* C15: the answer completion is sent exactly two messages, system then
\* user, and the user message is the raw prompt unchanged; history is never
\* sent as further messages.
C15_TwoMessages ==
    \A r \in Requests :
        qPc[r] = "complete"
        => /\ Len(qMsgs[r]) = 2
           /\ qMsgs[r][1].role = "system"
           /\ qMsgs[r][2] = [role |-> "user", content |-> qPrompt[r]]
           /\ \A i \in 1..Len(qMsgs[r]) : qMsgs[r][i].role \in {"system", "user"}

\* The prompt with surrounding whitespace is about to be sent with
\* retrieved documents and prior turns in the system message.
C15_Witness ==
    \E r \in Requests :
        /\ qPc[r] = "complete"
        /\ qPrompt[r] # Strip(qPrompt[r])
        /\ Contains(qMsgs[r][1].content, "DOCUMENTS:")
        /\ Contains(qMsgs[r][1].content, "RECENT MESSAGES (last ")
        /\ Contains(qMsgs[r][1].content, "assistant")

\* C16 (as claimed): the k extract_requested_event_count returns, which is
\* the k passed to the similarity search, is at least 1.
C16_CountAtLeastOne ==
    \A r \in Requests : qK[r] # <<>> => qK[r][1] >= 1

Unparseable(resp) ==
    /\ resp.choices
    /\ resp.content # None
    /\ StripContent(resp.content) \notin DOMAIN IntLiterals

C18_SearchByEmbedding ==
    \A r \in Requests :
        /\ LastStep(r) = "search" /\ qResult[r].kind = "error"
             => qResult[r].value = "ProviderError"
        /\ qPc[r] = "build"
             => /\ qK[r][1] <= 0 => qEvents[r] = <<>>
                /\ qK[r][1] > 0 =>
                     /\ Len(qEvents[r]) <= qK[r][1]
                     /\ \A i \in 1..Len(qEvents[r]) : qEvents[r][i].embedding # <<>>

(***************************************************************************)
(* SpecCreate: EventServiceImpl.create.  The pre-check and the organizer   *)
(* lookup read outside any write transaction; _persist re-checks the title *)
(* and adds the event inside its transaction, whose commit flushes the     *)
(* INSERT.                                                                 *)
(***************************************************************************)
KEnd(p, outcome) ==
    /\ kResult' = [kResult EXCEPT ![p] = outcome]
    /\ kPc' = [kPc EXCEPT ![p] = "idle"]

\* POST /events: create(data) is called.
KCall(p) ==
    /\ UNCHANGED NotCreate
    /\ kPc[p] = "idle"
    /\ kCalls < MaxCreateCalls
    /\ kCalls' = kCalls + 1
    /\ \E d \in CreateData : kData' = [kData EXCEPT ![p] = d]
    /\ kPc' = [kPc EXCEPT ![p] = "precheck"]
    /\ kEvent' = [kEvent EXCEPT ![p] = NoEvent]
    /\ kResult' = [kResult EXCEPT ![p] = "none"]
    /\ kId' = [kId EXCEPT ![p] = <<p, kId[p][2] + 1>>]
    /\ kFound' = [kFound EXCEPT ![p] = {}]
    /\ kEmbedCalls' = [kEmbedCalls EXCEPT ![p] = 0]
    /\ kRechecked' = [kRechecked EXCEPT ![p] = FALSE]
    /\ UNCHANGED kRows

\* Lines 118-131: the pre-check, the organizer lookup, the Event object.
KPrecheck(p) ==
    /\ UNCHANGED NotCreate
    /\ kPc[p] = "precheck"
    /\ kFound' = [kFound EXCEPT ![p] = RowsByTitle(kRows, kData[p].title)]
    /\ IF PrecheckFinds(kRows, kData[p].title)
         THEN /\ KEnd(p, "EventAlreadyExistsException")
              /\ UNCHANGED kEvent
         ELSE IF ~kData[p].organizer_known
           THEN /\ KEnd(p, "UserNotFoundException")
                /\ UNCHANGED kEvent
           ELSE /\ kEvent' = [kEvent EXCEPT
                                ![p] = [title |-> kData[p].title,
                                        description |-> kData[p].description,
                                        embedding |-> <<>>]]
                /\ kPc' = [kPc EXCEPT ![p] = "embed"]
                /\ UNCHANGED kResult
    /\ UNCHANGED <<kRows, kData, kCalls, kId, kEmbedCalls, kRechecked>>

\* event.embedding = await self.embedding_service.create_embedding(formatted)
KEmbed(p) ==
    /\ UNCHANGED NotCreate
    /\ kPc[p] = "embed"
    /\ kEmbedCalls' = [kEmbedCalls EXCEPT ![p] = @ + 1]
    /\ kEvent' = [kEvent EXCEPT
                    ![p].embedding = Embedding(<<kEvent[p].title,
                                                 kEvent[p].description>>)]
    /\ kPc' = [kPc EXCEPT ![p] = "recheck"]
    /\ UNCHANGED <<kRows, kData, kResult, kCalls, kId, kFound, kRechecked>>

\* The embedding provider raises.
KEmbedFails(p) ==
    /\ UNCHANGED NotCreate
    /\ kPc[p] = "embed"
    /\ kEmbedCalls' = [kEmbedCalls EXCEPT ![p] = @ + 1]
    /\ KEnd(p, "EmbeddingServiceException")
    /\ UNCHANGED <<kRows, kData, kEvent, kCalls, kId, kFound, kRechecked>>

\* _persist: the re-check inside the transaction, then session.add(event).
KRecheck(p) ==
    /\ UNCHANGED NotCreate
    /\ kPc[p] = "recheck"
    /\ IF RowsByTitle(kRows, kData[p].title) # {}
         THEN /\ KEnd(p, "EventAlreadyExistsException")
              /\ UNCHANGED kRechecked
         ELSE /\ kRechecked' = [kRechecked EXCEPT ![p] = TRUE]
              /\ kPc' = [kPc EXCEPT ![p] = "commit"]
              /\ UNCHANGED kResult
    /\ UNCHANGED <<kRows, kData, kEvent, kCalls, kId, kFound, kEmbedCalls>>

\* The commit of _persist's transaction flushes the INSERT: it adds the row
\* with version 1, or raises IntegrityError, which is not retried and which
\* create wraps into EventSaveException.
KCommit(p) ==
    /\ UNCHANGED NotCreate
    /\ kPc[p] = "commit"
    /\ IF UniqueViolation(kRows, kEvent[p].title)
         THEN /\ KEnd(p, "EventSaveException")
              /\ UNCHANGED kRows
         ELSE /\ kRows' = kRows \cup
                    {[id |-> kId[p], title |-> kEvent[p].title,
                      description |-> kEvent[p].description, version |-> 1,
                      embedding |-> kEvent[p].embedding]}
              /\ KEnd(p, "created")
    /\ UNCHANGED <<kData, kEvent, kCalls, kId, kFound, kEmbedCalls, kRechecked>>

NextCreate ==
    \E p \in Creators :
        \/ KCall(p)
        \/ KPrecheck(p)
        \/ KEmbed(p)
        \/ KEmbedFails(p)
        \/ KRecheck(p)
        \/ KCommit(p)

InitK == IdleUser /\ IdleTxn /\ IdleEvent /\ IdleHist /\ IdleThreads /\ IdleChat /\ InitCreate /\ IdleGuests /\ IdleEmbed /\ IdleLogin /\ IdleContext

SpecCreate == InitK /\ [][NextCreate]_vars

(***************************************************************************)
(* Actions of AppServiceImpl.add_participant_to_event and                  *)
(* remove_participant_from_event, both under                               *)
(* @retry_conflicts(max_retries=3) and @transactional.                     *)
(***************************************************************************)

\* An exception `err` leaves the outermost transaction of request p:
\* rollback, conversion by transactional, decision of retry_conflicts.
GRaise(p, err) ==
    LET out == TransactionalRaises(err, TRUE)
        dec == RetryDecision(out, gAttempt[p], SERVICE_MAX_RETRIES)
    IN  IF dec = "sleep"
        THEN /\ gPc' = [gPc EXCEPT ![p] = "sleep"]
             /\ gResult' = gResult
        ELSE /\ gPc' = [gPc EXCEPT ![p] = "done"]
             /\ gResult' = [gResult EXCEPT ![p] = out]

\* POST or DELETE /app/<title>/participants/<email>: the wrapper enters its
\* loop with attempt = 1.
GCall(p) ==
    /\ UNCHANGED NotGuests
    /\ gPc[p] \in {"idle", "done"}
    /\ gCalls < MaxGuestCalls
    /\ gCalls' = gCalls + 1
    /\ \E o \in GuestOps, t \in GuestTitles, e \in GuestEmails :
         /\ gOp' = [gOp EXCEPT ![p] = o]
         /\ gTitle' = [gTitle EXCEPT ![p] = t]
         /\ gEmail' = [gEmail EXCEPT ![p] = e]
    /\ gAttempt' = [gAttempt EXCEPT ![p] = 1]
    /\ gPc' = [gPc EXCEPT ![p] = "check"]
    /\ gResult' = [gResult EXCEPT ![p] = "pending"]
    /\ gDuplicate' = [gDuplicate EXCEPT ![p] = FALSE]
    /\ gWrote' = [gWrote EXCEPT ![p] = FALSE]
    /\ UNCHANGED gList

\* The method body of one attempt: look the event and the user up, test the
\* membership, and queue the append or the remove (save is session.add: no
\* statement is sent before the commit).
GCheck(p) ==
    /\ UNCHANGED NotGuests
    /\ gPc[p] = "check"
    /\ LET pair == <<gTitle[p], gEmail[p]>> IN
       IF gTitle[p] \notin StoredTitles
       THEN /\ GRaise(p, "EventNotFoundException")
            /\ UNCHANGED gDuplicate
       ELSE IF gEmail[p] \notin StoredEmails
       THEN /\ GRaise(p, "UserNotFoundException")
            /\ UNCHANGED gDuplicate
       ELSE IF gOp[p] = "add" /\ IsGuest(gList, pair)
       THEN /\ GRaise(p, "UserAlreadyInEventException")
            /\ gDuplicate' = [gDuplicate EXCEPT ![p] = TRUE]
       ELSE IF gOp[p] = "remove" /\ ~IsGuest(gList, pair)
       THEN /\ GRaise(p, "UserNotInEventException")
            /\ UNCHANGED gDuplicate
       ELSE /\ gPc' = [gPc EXCEPT ![p] = "commit"]
            /\ UNCHANGED <<gResult, gDuplicate>>
    /\ UNCHANGED <<gList, gOp, gTitle, gEmail, gAttempt, gCalls, gWrote>>

\* The body has returned and the context manager commits: the flush sends
\* INSERT INTO guest_list or DELETE FROM guest_list.  The INSERT of a pair
\* another request has committed meanwhile violates the primary key: the
\* IntegrityError is raised by the commit, outside the try block of the
\* method body.  A DELETE that matches no row is StaleDataError when the
\* driver reports row counts, and passes unnoticed when it does not.
GCommit(p) ==
    /\ UNCHANGED NotGuests
    /\ gPc[p] = "commit"
    /\ LET pair == <<gTitle[p], gEmail[p]>> IN
       IF gOp[p] = "add"
       THEN IF PrimaryKeyViolation(gList, pair)
            THEN /\ GRaise(p, "IntegrityError")
                 /\ gDuplicate' = [gDuplicate EXCEPT ![p] = TRUE]
                 /\ UNCHANGED <<gList, gWrote>>
            ELSE /\ gList' = [gList EXCEPT ![pair] = @ + 1]
                 /\ gWrote' = [gWrote EXCEPT ![p] = TRUE]
                 /\ gPc' = [gPc EXCEPT ![p] = "done"]
                 /\ gResult' = [gResult EXCEPT ![p] = "ok"]
                 /\ UNCHANGED gDuplicate
       ELSE IF gList[pair] >= 1
            THEN /\ gList' = [gList EXCEPT ![pair] = @ - 1]
                 /\ gWrote' = [gWrote EXCEPT ![p] = TRUE]
                 /\ gPc' = [gPc EXCEPT ![p] = "done"]
                 /\ gResult' = [gResult EXCEPT ![p] = "ok"]
                 /\ UNCHANGED gDuplicate
            ELSE \E saneRowcount \in BOOLEAN :
                 /\ IF saneRowcount
                    THEN GRaise(p, "StaleDataError")
                    ELSE /\ gPc' = [gPc EXCEPT ![p] = "done"]
                         /\ gResult' = [gResult EXCEPT ![p] = "ok"]
                 /\ UNCHANGED <<gList, gWrote, gDuplicate>>
    /\ UNCHANGED <<gOp, gTitle, gEmail, gAttempt, gCalls>>

\* sleep(backoff_sec * attempt) is over: the next attempt starts.
GWake(p) ==
    /\ UNCHANGED NotGuests
    /\ gPc[p] = "sleep"
    /\ gAttempt' = [gAttempt EXCEPT ![p] = @ + 1]
    /\ gPc' = [gPc EXCEPT ![p] = "check"]
    /\ UNCHANGED <<gList, gOp, gTitle, gEmail, gResult, gCalls, gDuplicate,
                   gWrote>>

NextGuests ==
    \/ \E p \in Inviters : GCall(p)
    \/ \E p \in Inviters : GCheck(p)
    \/ \E p \in Inviters : GCommit(p)
    \/ \E p \in Inviters : GWake(p)

InitG == IdleUser /\ IdleTxn /\ IdleEvent /\ IdleHist /\ IdleThreads /\ IdleChat /\ IdleCreate /\ InitGuests /\ IdleEmbed /\ IdleLogin /\ IdleContext

SpecGuests == InitG /\ [][NextGuests]_vars

(***************************************************************************)
(* Actions of EmbeddingServiceImpl.create_embedding.                       *)
(***************************************************************************)

\* create_embedding(text) is called.
BCall ==
    /\ UNCHANGED NotEmbed
    /\ bPc \in {"idle", "done"}
    /\ bCalls < MaxEmbedCalls
    /\ bCalls' = bCalls + 1
    /\ bText' \in EmbedTexts
    /\ bPc' = "validate"
    /\ bPayload' = NoPayload
    /\ bRaised' = NoException
    /\ bReturned' = <<>>
    /\ bNorm' = "none"
    /\ bStatus' = 0
    /\ bProviderCalls' = 0

\* The input check that precedes the provider request.
BValidate ==
    /\ UNCHANGED NotEmbed
    /\ bPc = "validate"
    /\ IF InvalidText(bText)
       THEN /\ bRaised' = EmbeddingServiceException("Input text must be a non-empty string.")
            /\ bPc' = "raised"
       ELSE /\ bRaised' = bRaised
            /\ bPc' = "request"
    /\ UNCHANGED <<bText, bPayload, bReturned, bNorm, bStatus, bProviderCalls,
                   bCalls>>

\* await self.client.embeddings.create(...): any exception of the client is
\* wrapped.
BRequest ==
    /\ UNCHANGED NotEmbed
    /\ bPc = "request"
    /\ bProviderCalls' = bProviderCalls + 1
    /\ \E resp \in ProviderResponses :
         /\ bPayload' = resp
         /\ IF resp.raises
            THEN /\ bRaised' = EmbeddingServiceException("OpenAI embedding request failed.")
                 /\ bPc' = "raised"
            ELSE /\ bRaised' = bRaised
                 /\ bPc' = "normalize"
    /\ UNCHANGED <<bText, bReturned, bNorm, bStatus, bCalls>>

\* resp.data[0].embedding, the dimension check, the zero-norm check and the
\* division by the norm.
BNormalize ==
    /\ UNCHANGED NotEmbed
    /\ bPc = "normalize"
    /\ LET emb == bPayload.embedding
           norm_val == NormClass(emb)
           normalized == [i \in 1..Len(emb) |-> Divide(emb[i], norm_val)]
       IN  IF ~bPayload.data
           THEN /\ bRaised' = EmbeddingServiceException("OpenAI returned an unexpected embedding payload.")
                /\ bPc' = "raised"
                /\ UNCHANGED <<bReturned, bNorm>>
           ELSE IF Len(emb) # UNIFIED_VECTOR_DIM
           THEN /\ bRaised' = EmbeddingServiceException("Expected UNIFIED_VECTOR_DIM-dim embedding")
                /\ bPc' = "raised"
                /\ UNCHANGED <<bReturned, bNorm>>
           ELSE IF ZeroNorm(norm_val)
           THEN /\ bRaised' = EmbeddingServiceException("Embedding vector has zero norm, cannot normalize.")
                /\ bPc' = "raised"
                /\ UNCHANGED <<bReturned, bNorm>>
           ELSE /\ bReturned' = normalized
                /\ bNorm' = NormOfReturned(normalized, norm_val)
                /\ bPc' = "done"
                /\ bRaised' = bRaised
    /\ UNCHANGED <<bText, bPayload, bStatus, bProviderCalls, bCalls>>

\* handle_embedding_service_error: the response status of the exception.
BHandle ==
    /\ UNCHANGED NotEmbed
    /\ bPc = "raised"
    /\ bStatus' = StatusOf(bRaised)
    /\ bPc' = "done"
    /\ UNCHANGED <<bText, bPayload, bRaised, bReturned, bNorm, bProviderCalls,
                   bCalls>>

NextEmbed ==
    \/ BCall
    \/ BValidate
    \/ BRequest
    \/ BNormalize
    \/ BHandle

InitB == IdleUser /\ IdleTxn /\ IdleEvent /\ IdleHist /\ IdleThreads /\ IdleChat /\ IdleCreate /\ IdleGuests /\ InitEmbed /\ IdleLogin /\ IdleContext

SpecEmbed == InitB /\ [][NextEmbed]_vars

(***************************************************************************)
(* Actions of Login.post.                                                  *)
(***************************************************************************)

\* A request arrives; the two fields are read and checked for presence.
NPost ==
    /\ UNCHANGED NotLogin
    /\ nPc \in {"idle", "done"}
    /\ nCalls < MaxLoginCalls
    /\ nCalls' = nCalls + 1
    /\ nLookups' = 0
    /\ nFound' = {}
    /\ \E req \in LoginRequests :
         /\ nRequest' = req
         /\ IF Falsy(req.email) \/ Falsy(req.password)
            THEN /\ nResponse' = BadRequest
                 /\ nPc' = "done"
            ELSE /\ nResponse' = NoLoginResponse
                 /\ nPc' = "lookup"
    /\ UNCHANGED nUsers

\* user_service.get_by_email(email); UserNotFoundException becomes None.
NLookup ==
    /\ UNCHANGED NotLogin
    /\ nPc = "lookup"
    /\ nLookups' = nLookups + 1
    /\ nFound' = UsersByEmail(nUsers, GetField(nRequest.email))
    /\ nPc' = "verify"
    /\ UNCHANGED <<nUsers, nRequest, nResponse, nCalls>>

\* if not user or not user.verify_password(password): 401; else the token.
NVerify ==
    /\ UNCHANGED NotLogin
    /\ nPc = "verify"
    /\ IF nFound = {}
       THEN nResponse' = InvalidCredentials
       ELSE \E user \in nFound :
              IF ~VerifyPassword(user, GetField(nRequest.password))
              THEN nResponse' = InvalidCredentials
              ELSE nResponse' = AccessToken(user)
    /\ nPc' = "done"
    /\ UNCHANGED <<nUsers, nRequest, nFound, nLookups, nCalls>>

NextLogin ==
    \/ NPost
    \/ NLookup
    \/ NVerify

InitN == IdleUser /\ IdleTxn /\ IdleEvent /\ IdleHist /\ IdleThreads /\ IdleChat /\ IdleCreate /\ IdleGuests /\ IdleEmbed /\ InitLogin /\ IdleContext

SpecLogin == InitN /\ [][NextLogin]_vars

(***************************************************************************)
(* Actions: the part of query_prompt that reads the history and builds the *)
(* context.                                                                *)
(***************************************************************************)

\* query_prompt(user_prompt, session_key) has retrieved its events.
CCall ==
    /\ UNCHANGED NotContext
    /\ cPc \in {"idle", "done"}
    /\ cCalls < MaxContextCalls
    /\ cCalls' = cCalls + 1
    /\ cKey' \in SessionKeys
    /\ cPc' = "history"
    /\ cRecent' = <<>>
    /\ cContext' = <<>>
    /\ cReads' = 0
    /\ UNCHANGED <<cLimit, cStored, cRepo>>

\* if session_key and self.history_repo: prior = history_repo.get(key);
\* recent = prior[-MAX_HISTORY_IN_CONTEXT:]; then the context is joined.
CBuildContext ==
    /\ UNCHANGED NotContext
    /\ cPc = "history"
    /\ IF HistoryOn(cKey, cRepo)
       THEN /\ cReads' = cReads + 1
            /\ cRecent' = RecentMessages(cStored, cLimit)
            /\ cContext' = ContextWith(<<>>, cStored, cLimit)
       ELSE /\ cReads' = cReads
            /\ cRecent' = <<>>
            /\ cContext' = ContextWith(<<>>, <<>>, cLimit)
    /\ cPc' = "done"
    /\ UNCHANGED <<cLimit, cStored, cRepo, cKey, cCalls>>

NextContext ==
    \/ CCall
    \/ CBuildContext

InitC == IdleUser /\ IdleTxn /\ IdleEvent /\ IdleHist /\ IdleThreads /\ IdleChat /\ IdleCreate /\ IdleGuests /\ IdleEmbed /\ IdleLogin /\ InitContext

SpecContext == InitC /\ [][NextContext]_vars

C29_RunsAtLeastOnce ==
    tPc = "done" => tRuns >= 1

(***************************************************************************)
(* Properties of SpecGuests.                                               *)
(***************************************************************************)
\* C22 (as claimed): every (event, user) pair has at most one row in the
\* guest list, and an add that met an existing membership, at the check or
\* at the insert, ended with UserAlreadyInEventException and wrote nothing.
C22_GuestListUnique ==
    /\ \A pair \in GuestPairs : gList[pair] <= 1
    /\ \A p \in Inviters :
         gPc[p] = "done" /\ gOp[p] = "add" /\ gDuplicate[p]
            => /\ gResult[p] = "UserAlreadyInEventException"
               /\ ~gWrote[p]

(***************************************************************************)
(* Properties of SpecEmbed.                                                *)
(***************************************************************************)
\* C23 (as claimed): a call with empty or whitespace-only text ends with an
\* invalid-input error whose response status is a 4xx, and the embedding
\* provider was not called.
C23_EmptyTextIs4xx ==
    bPc = "done" /\ bText.isStr /\ Strip(bText.chars) = <<>>
        => /\ bRaised.type = "EmbeddingServiceException"
           /\ bStatus \in 400..499
           /\ bProviderCalls = 0

\* C24 (as claimed): a call that returned a vector returned one of
\* UNIFIED_VECTOR_DIM components and Euclidean norm 1, and a provider vector
\* of another length or of zero norm made the call fail.
C24_UnitVector ==
    /\ bPc = "done" /\ bRaised.type = "none"
         => /\ Len(bReturned) = UNIFIED_VECTOR_DIM
            /\ bNorm = "one"
    /\ bPc = "done" /\ bPayload.data
         /\ ( \/ Len(bPayload.embedding) # UNIFIED_VECTOR_DIM
              \/ \A i \in 1..Len(bPayload.embedding) :
                    bPayload.embedding[i] = FloatZero )
         => bRaised.type = "EmbeddingServiceException"

(***************************************************************************)
(* Properties of SpecLogin.                                                *)
(***************************************************************************)
Registered(email) == \E u \in nUsers : u.email = email

PasswordOf(email, password) ==
    \E u \in nUsers :
        /\ u.email = email
        /\ u.password_hash = GeneratePasswordHash(password, u.password_hash.salt)

\* C25: a finished login answers with an access token only when a user with
\* the email exists and the password is the one its hash was made from, and
\* then the token is that user's; with both fields present, an unregistered
\* email and a wrong password get the same response (401, "Invalid
\* credentials"); a request without email or password gets 400 and no user
\* lookup is made.
C25_LoginContract ==
    nPc = "done" =>
      LET email == GetField(nRequest.email)
          password == GetField(nRequest.password)
          missing == nRequest.email \in {<<>>, <<"">>}
                        \/ nRequest.password \in {<<>>, <<"">>}
      IN  /\ nResponse.status \in {200, 400, 401}
          /\ nResponse.status = 200
               <=> ~missing /\ PasswordOf(email, password)
          /\ nResponse.status = 200
               => \E u \in nUsers : /\ u.email = email
                                    /\ nResponse.access_token = u.id
          /\ ~missing /\ ~Registered(email) => nResponse = InvalidCredentials
          /\ ~missing /\ Registered(email) /\ ~PasswordOf(email, password)
               => nResponse = InvalidCredentials
          /\ missing => nResponse.status = 400 /\ nLookups = 0
          /\ ~missing => nLookups = 1

\* A login with a registered email and another user's password was refused
\* with the response an unregistered email gets.
C25_Witness ==
    /\ nPc = "done"
    /\ nRequest = [email |-> <<"test@example.com">>, password |-> <<"wrongpass">>]
    /\ BobUser \in nUsers
    /\ TestUser \in nUsers
    /\ nLookups = 1
    /\ nResponse = InvalidCredentials

(***************************************************************************)
(* Properties of SpecChat: the order of the external steps and the header  *)
(* of the history block.                                                   *)
(***************************************************************************)
ExternalOrder == <<"embed", "count", "search", "complete">>

IsExternal(step) == step \in {"embed", "count", "search", "complete"}

IsPrefix(s, t) == Len(s) <= Len(t) /\ s = SubSeq(t, 1, Len(s))

ExternalSteps(r) == FilterSeq(IsExternal, qSteps[r])

\* C26: the external steps a call has invoked are a prefix of embed, count,
\* search, complete (in that order, each at most once); the step a call
\* failed at is the last step it invoked; the answer completion is invoked
\* only after the three steps before it succeeded, and a call that returned
\* an answer invoked each of the four exactly once.
C26_StepOrder ==
    \A r \in Requests :
        /\ IsPrefix(ExternalSteps(r), ExternalOrder)
        /\ Failed(r) => /\ qPc[r] = "idle"
                        /\ IsExternal(LastStep(r))
                        /\ ~Contains(qSteps[r], "append_user")
                        /\ ~Contains(qSteps[r], "append_assistant")
        /\ qPc[r] = "complete" => ExternalSteps(r) = SubSeq(ExternalOrder, 1, 3)
        /\ qResult[r].kind = "answer" => ExternalSteps(r) = ExternalOrder

\* A call failed in the similarity search after the embedding and the count
\* extraction: the completion was never invoked.
C26_Witness ==
    \E r \in Requests :
        /\ qResult[r].kind = "error"
        /\ qSteps[r] = <<"embed", "count", "search">>

RECURSIVE CountToken(_, _)
CountToken(t, tok) ==
    IF t = <<>> THEN 0
    ELSE (IF Head(t) = tok THEN 1 ELSE 0) + CountToken(Tail(t), tok)

HeaderIndex(t) == CHOOSE i \in 1..Len(t) : t[i] = "RECENT MESSAGES (last "

\* C30 (as claimed): in a system message with a history block, the number
\* in the header "RECENT MESSAGES (last N):" is the number of transcript
\* lines ("role: content") rendered below it.
C30_HeaderCountsLines ==
    \A r \in Requests :
        LET content == qMsgs[r][1].content IN
        (qPc[r] = "complete" /\ Contains(content, "RECENT MESSAGES (last "))
        => content[HeaderIndex(content) + 1]
             = ToString(CountToken(SubSeq(content, HeaderIndex(content) + 2,
                                          Len(content)), ":"))

(***************************************************************************)
(* Properties of SpecContext.                                              *)
(***************************************************************************)
\* "at most n messages" for a configured n; a negative n allows none
AtMost(n) == IF n < 0 THEN 0 ELSE n

\* C27 (as claimed): for every configured MAX_HISTORY_IN_CONTEXT and every
\* stored history, the history block is built from at most
\* MAX_HISTORY_IN_CONTEXT messages, which are the most recent stored ones in
\* stored order; without a session key or a history store nothing is read.
C27_HistoryWindow ==
    cPc = "done" =>
        /\ Len(cRecent) <= AtMost(cLimit)
        /\ IsSuffix(cRecent, cStored)
        /\ CountToken(cContext, ":") <= AtMost(cLimit)
        /\ ~(cKey # "" /\ cRepo) => cReads = 0 /\ cRecent = <<>>

(***************************************************************************)
(* Properties of Spec and SpecCreate: the version counter.                 *)
(***************************************************************************)
\* The step in which the update of p is committed successfully.
UpdateCommitted(p) ==
    /\ op[p] = "update"
    /\ pc[p] = "commit"
    /\ pc'[p] = "done"
    /\ result'[p] = "ok"

ColumnChanged == \E c \in Columns : row'[c] # row[c]

C21_VersionStep ==
    /\ row'.version >= row.version
    /\ \A p \in Procs :
         UpdateCommitted(p)
            => IF ColumnChanged THEN row'.version = row.version + 1
               ELSE row'.version = row.version
    /\ row'.version # row.version => \E p \in Procs : UpdateCommitted(p)
    /\ (\A p \in Procs : ~UpdateCommitted(p)) => ~ColumnChanged

C21_CreatedEventVersionOne ==
    \A p \in Creators :
        kResult[p] = "created"
        => \E e \in kRows : /\ e.id = kId[p]
                            /\ e.version = 1
                            /\ e.embedding # <<>>

(***************************************************************************)
(* Properties of SpecCreate.                                               *)
(***************************************************************************)
Inserted(p) == \E e \in kRows : e.id = kId[p]

\* C19: a create whose title belongs to a stored event when its pre-check
\* reads ends with EventAlreadyExistsException, has made no
\* embedding-provider call and inserted no row, and the stored event is
\* still in the table with the fields and the version it had.
C19_DuplicateTitleRejected ==
    \A p \in Creators :
        (kPc[p] # "precheck" /\ kFound[p] # {})
        => /\ kPc[p] = "idle"
           /\ kResult[p] = "EventAlreadyExistsException"
           /\ kEmbedCalls[p] = 0
           /\ ~Inserted(p)
           /\ kFound[p] \subseteq kRows
           /\ RowsByTitle(kRows, kData[p].title) = kFound[p]

\* A second create of a title, by the request that created the first or by
\* another one, was rejected by its pre-check.
C19_Witness ==
    \E p \in Creators :
        /\ kResult[p] = "EventAlreadyExistsException"
        /\ kFound[p] # {}
        /\ \E e \in kFound[p] : e.id # <<0, 0>>

\* C20: the table never holds two rows with one title; a create ends as
\* created exactly when its row is in the table, and a create that passed
\* both checks and did not insert ends with an error.
C20_TitleUnique ==
    /\ \A e1, e2 \in kRows : e1.title = e2.title => e1 = e2
    /\ \A p \in Creators :
         /\ kResult[p] = "created" <=> Inserted(p)
         /\ (kRechecked[p] /\ kPc[p] = "idle" /\ ~Inserted(p))
              => kResult[p] = "EventSaveException"

\* Two concurrent creates of one title both passed the pre-check and the
\* re-check; one created the event and the other ended with an error.
C20_Witness ==
    \E p1, p2 \in Creators :
        /\ p1 # p2
        /\ kData[p1].title = kData[p2].title
        /\ kRechecked[p1] /\ kRechecked[p2]
        /\ kResult[p1] = "created"
        /\ kResult[p2] = "EventSaveException"

(***************************************************************************)
(* Properties of SpecTxn.                                                  *)
(***************************************************************************)

LogIndices(kinds) == {i \in 1..Len(tLog) : tLog[i].kind \in kinds}

AttemptOver == tPc \in {"caught", "sleep", "done"} /\ tRuns >= 1

\* C2: retry_conflicts re-runs the operation only after a
\* ConcurrencyException, after a rollback and in a fresh outermost
\* transaction; it makes at most max_retries attempts; a return or any
\* other error ends the call at once with that result; a conflict in the
\* last attempt reaches the caller as ConcurrencyException.
C2_RetryContract ==
    /\ tRuns <= (IF tMax >= 1 THEN tMax ELSE 0)
    /\ tPc \in {"body", "except", "caught"}
         => tRuns = tAttempt /\ tConflicts = tAttempt - 1
    /\ tPc = "loop"
         => /\ ~tTxn /\ tPending = {} /\ tStack = <<>>
            /\ tRuns = tAttempt - 1 /\ tConflicts = tAttempt - 1
    /\ (tPc = "body" /\ Depth >= 1)
         => /\ tStack[1].outermost
            /\ \A w \in tPending : w[1] = tAttempt
    /\ (tPc = "done" /\ tRuns >= 1)
         => /\ tResult = tLastOutcome
            /\ tResult # "ConcurrencyException" => tRuns = tConflicts + 1
            /\ tResult = "ConcurrencyException"
                 => tConflicts = tMax /\ tRuns = tMax

\* Three attempts, each ended in a conflict: the last one reaches the caller.
C2_Witness ==
    /\ tPc = "done"
    /\ tMax = SERVICE_MAX_RETRIES
    /\ tResult = "ConcurrencyException"
    /\ tRuns = SERVICE_MAX_RETRIES
    /\ Len(tSlept) = SERVICE_MAX_RETRIES - 1

C5_PhaseInvariant ==
    /\ tPhase \in {"NOT_STARTED", "IN_PROGRESS", "COMMITTED", "ABORTED"}
    /\ tPhase \in {"NOT_STARTED", "IN_PROGRESS"} => tDb = tDbStart
    /\ tPhase = "COMMITTED"
         => /\ tReturned /\ tErr = None
            /\ tDb = tDbStart \cup tWrites
            /\ tPending = {} /\ ~tTxn
    /\ tPhase = "ABORTED"
         => /\ tErr # None
            /\ tDb = tDbStart
            /\ tPending = {} /\ ~tTxn
            /\ tPc = "done" => tResult = tErr
    /\ AttemptOver
         => /\ tPhase \in {"COMMITTED", "ABORTED"}
            /\ (tPhase = "COMMITTED") <=> (tReturned /\ tErr = None)

C5_PhaseStep ==
    /\ tPhase' # tPhase
         => <<tPhase, tPhase'>> \in
               { <<"NOT_STARTED", "IN_PROGRESS">>,
                 <<"IN_PROGRESS", "COMMITTED">>,
                 <<"IN_PROGRESS", "ABORTED">>,
                 <<"ABORTED", "NOT_STARTED">> }
    /\ tDb' # tDb
         => /\ tPhase = "IN_PROGRESS" /\ tPhase' = "COMMITTED"
            /\ tDb' = tDb \cup tWrites

\* C5: an outermost @transactional invocation goes NOT_STARTED ->
\* IN_PROGRESS -> COMMITTED or ABORTED; it is committed exactly when the
\* wrapped function returned and the commit raised nothing; after any
\* exception every write of the invocation is rolled back and the error is
\* re-raised; the committed state changes only by one step that adds all the
\* writes of the invocation.
C5_TransactionPhases == []C5_PhaseInvariant /\ [][C5_PhaseStep]_vars

\* The function returned after two writes, the commit raised, and the
\* invocation ended aborted with nothing committed.
C5_Witness ==
    /\ tPc = "done"
    /\ tPhase = "ABORTED"
    /\ tReturned
    /\ Cardinality(tWrites) >= 2
    /\ tDb = {}

\* C6: a @transactional call made while the session has an active
\* transaction joins it; whatever the nesting depth, the transaction is
\* begun once and ended (committed or rolled back) once, both by the
\* outermost invocation.
C6_NestedJoins ==
    /\ \A i \in 2..Depth : ~tStack[i].outermost
    /\ \A i \in LogIndices({"begin", "commit", "rollback"}) : tLog[i].depth = 1
    /\ Cardinality(LogIndices({"begin"})) <= 1
    /\ Cardinality(LogIndices({"commit", "rollback"})) <= 1
    /\ tPc \in {"body", "except"} => Cardinality(LogIndices({"begin"})) = 1
    /\ AttemptOver
         => /\ Cardinality(LogIndices({"begin"})) = 1
            /\ Cardinality(LogIndices({"commit", "rollback"})) = 1
    /\ tTxn <=> ( /\ Cardinality(LogIndices({"begin"})) = 1
                  /\ Cardinality(LogIndices({"commit", "rollback"})) = 0
                  /\ tPc \in {"body", "except"} )

\* A function nested two levels below the outermost one is running, with a
\* write pending in the joined transaction.
C6_Witness ==
    /\ tPc = "body"
    /\ Depth >= 3
    /\ tTxn
    /\ tPending # {}

StaleExcepts ==
    {i \in LogIndices({"except"}) : tLog[i].errIn = "StaleDataError"}

\* C7: a StaleDataError leaving the outermost @transactional call is rolled
\* back and replaced by ConcurrencyException; leaving a nested call it is
\* re-raised unchanged without a rollback; so it is converted once.
C7_StaleConversion ==
    /\ \A i \in StaleExcepts :
          IF tLog[i].outermost
          THEN tLog[i].errOut = "ConcurrencyException" /\ ~tLog[i].txnAfter
          ELSE tLog[i].errOut = "StaleDataError" /\ tLog[i].txnAfter
    /\ Cardinality({i \in StaleExcepts :
                       tLog[i].errOut = "ConcurrencyException"}) <= 1
    /\ \A i \in LogIndices({"except"}) :
          tLog[i].errOut = "ConcurrencyException"
              => tLog[i].depth = 1 /\ tLog[i].errIn = "StaleDataError"

\* A StaleDataError raised two levels down passed the nested boundaries
\* unchanged and left the outermost one as ConcurrencyException.
C7_Witness ==
    /\ tPc = "caught"
    /\ tErr = "ConcurrencyException"
    /\ \E i, j \in StaleExcepts :
          /\ tLog[i].depth = 3 /\ ~tLog[i].outermost
          /\ tLog[j].depth = 1 /\ tLog[j].outermost

(***************************************************************************)
(* Properties of Spec.                                                     *)
(***************************************************************************)

\* Columns the data dict of an update assigns.
PatchedColumns(d) ==
    {c \in Columns :
        \/ c = "name" /\ d.name # None
        \/ c = "surname" /\ d.surname # None
        \/ c = "password_hash" /\ d.password \notin {None, ""}}

UpdateDone(p) == op[p] = "update" /\ pc[p] = "done"

\* Two updates whose first attempts read the same version and both issued
\* an UPDATE: exactly one of them committed on its first attempt and the
\* other's UPDATE was rejected.
C1_ExactlyOneFirst ==
    \A p, q \in Procs :
        ( /\ p # q
          /\ op[p] = "update" /\ op[q] = "update"
          /\ firstRead[p] # 0 /\ firstRead[p] = firstRead[q]
          /\ firstWrote[p] /\ firstWrote[q] )
        => /\ (commitAttempt[p] = 1) # (commitAttempt[q] = 1)
           /\ commitAttempt[p] # 1 => conflicts[p] >= 1

\* An update that met a conflict ends by committing a later attempt that
\* read a newer version, or by ConcurrencyException after the last attempt.
C1_LoserOutcome ==
    \A p \in Procs :
        (UpdateDone(p) /\ conflicts[p] >= 1 /\ row.exists)
        => \/ /\ result[p] = "ok"
              /\ commitAttempt[p] = conflicts[p] + 1
              /\ loaded[p].version > firstRead[p]
           \/ /\ result[p] = "ConcurrencyException"
              /\ conflicts[p] = SERVICE_MAX_RETRIES
              /\ commitAttempt[p] = 0

\* Every column a successful update assigned still holds the assigned value,
\* unless an UPDATE of a later row version has set it since.
C1_ChangesPresent ==
    \A p \in Procs :
        (UpdateDone(p) /\ result[p] = "ok" /\ row.exists)
        => \A c \in PatchedColumns(data[p]) :
              \/ row[c] = snap[p][c]
              \/ lastWrite[c] > (IF commitVersion[p] # 0 THEN commitVersion[p]
                                 ELSE loaded[p].version)

C1_WitnessExhausted ==
    \E p \in Procs :
        UpdateDone(p) /\ result[p] = "ConcurrencyException" /\ row.exists

\* C8 (as claimed): a call during which the storage raised a stale-version
\* error never ends in a save/delete error; it ends in success of a later
\* attempt or in ConcurrencyException.
C8_StaleNeverDeleteError ==
    \A p \in Procs :
        (pc[p] = "done" /\ stale[p] >= 1)
        => result[p] \notin {"UserDeleteException", "UserSaveException"}

====
